---- MODULE Spec2Model ----
(***************************************************************************)
(* Model of the remote session and protocol-control subsystem of           *)
(* bevy_brp_tool: the SSE decoder (cli/sse.rs), the readiness poller       *)
(* (cli/support/polling.rs), the port prober (cli/support/port_utils.rs),  *)
(* the protocol client (cli/client.rs), the managed-mode supervisor        *)
(* (cli/managed.rs), the detached session manager (cli/detached.rs) and    *)
(* the command texts (cli/commands/parsing.rs).                            *)
(*                                                                         *)
(* Each subsystem keeps its state in one record variable and has its own   *)
(* specification; a subsystem that a specification does not run is "off".  *)
(***************************************************************************)
EXTENDS Integers, Sequences, FiniteSets, TLC

VARIABLES sse, poll, cli, man, det, par

vars == <<sse, poll, cli, man, det, par>>

Off == [pc |-> "off"]

(***************************************************************************)
(* Generic helpers on sequences.                                           *)
(***************************************************************************)
Drop(s, n) == SubSeq(s, n + 1, Len(s))

Take(s, n) == SubSeq(s, 1, n)

(***************************************************************************)
(* SSE decoder, cli/sse.rs.                                                *)
(*                                                                         *)
(* A byte is a one-character string; "L" and "C" stand for the lead and    *)
(* the continuation byte of a two-byte UTF-8 character.  The buffer holds  *)
(* the text of the chunks that decoded as UTF-8.                           *)
(***************************************************************************)
MaxLines == 2

NL == "\n"
CR == "\r"

DataPrefix == <<"d", "a", "t", "a", ":", " ">>

\* The lines the upstream server may send (terminated or not).
Segments ==
    { <<"d", "a", "t", "a", ":", " ", "1", NL>>,
      <<"d", "a", "t", "a", ":", " ", "2", CR, NL>>,
      <<"d", "a", "t", "a", ":", " ", "x", NL>>,
      <<":", "L", "C", NL>>,
      <<NL>>,
      <<"d", "a", "t", "a", ":", " ", "3">> }

RECURSIVE Inputs(_)
Inputs(n) ==
    IF n = 0 THEN { <<>> }
    ELSE LET shorter == Inputs(n - 1)
         IN shorter \cup { s \o g : s \in shorter, g \in Segments }

\* std::str::from_utf8 on one chunk: every lead byte is followed by a
\* continuation byte and no continuation byte stands alone.
RECURSIVE from_utf8_ok(_)
from_utf8_ok(bytes) ==
    IF bytes = <<>> THEN TRUE
    ELSE IF Head(bytes) = "C" THEN FALSE
    ELSE IF Head(bytes) = "L"
         THEN Len(bytes) >= 2 /\ bytes[2] = "C" /\ from_utf8_ok(Drop(bytes, 2))
    ELSE from_utf8_ok(Tail(bytes))

\* str::find('\n'): the index of the first newline, 0 when there is none.
RECURSIVE find_newline(_, _)
find_newline(buf, from) ==
    IF from > Len(buf) THEN 0
    ELSE IF buf[from] = NL THEN from
    ELSE find_newline(buf, from + 1)

RECURSIVE trim_end_cr(_)
trim_end_cr(line) ==
    IF line # <<>> /\ line[Len(line)] = CR
    THEN trim_end_cr(Take(line, Len(line) - 1))
    ELSE line

starts_with(line, prefix) ==
    Len(line) >= Len(prefix) /\ Take(line, Len(prefix)) = prefix

RECURSIVE trim_start(_)
trim_start(s) ==
    IF s # <<>> /\ Head(s) \in {" ", "\t", NL, CR}
    THEN trim_start(Tail(s))
    ELSE s

RECURSIVE trim_end(_)
trim_end(s) ==
    IF s # <<>> /\ s[Len(s)] \in {" ", "\t", NL, CR}
    THEN trim_end(Take(s, Len(s) - 1))
    ELSE s

\* serde_json::from_str on the JSON texts of the model: an unsigned number
\* between optional whitespace is a value, anything else is a syntax error.
from_str_ok(data) ==
    LET t == trim_end(trim_start(data))
    IN /\ t # <<>>
       /\ \A i \in 1..Len(t) :
             t[i] \in {"0", "1", "2", "3", "4", "5", "6", "7", "8", "9"}
       /\ (Len(t) > 1 => t[1] # "0")

ErrEvent(msg) == [ok |-> FALSE, json |-> <<>>, err |-> msg]

data_line_event(data) ==
    IF from_str_ok(data)
    THEN [ok |-> TRUE, json |-> trim_end(trim_start(data)), err |-> ""]
    ELSE ErrEvent("Failed to parse JSON")

\* SseStream::parse_sse_events: drains every complete line of the buffer and
\* returns the events of the data lines among them, with the buffer left.
RECURSIVE parse_sse_events(_)
parse_sse_events(buf) ==
    LET line_end == find_newline(buf, 1)
    IN IF line_end = 0 THEN [events |-> <<>>, buffer |-> buf]
       ELSE LET line == trim_end_cr(Take(buf, line_end - 1))
                here == IF starts_with(line, DataPrefix)
                        THEN << data_line_event(Drop(line, Len(DataPrefix))) >>
                        ELSE <<>>
                more == parse_sse_events(Drop(buf, line_end))
            IN [events |-> here \o more.events, buffer |-> more.buffer]

\* What the inner byte stream hands to one poll.
ChunkItem(bytes) == [kind |-> "chunk", bytes |-> bytes]
ErrorItem == [kind |-> "error", bytes |-> <<>>]
NoneItem == [kind |-> "none", bytes |-> <<>>]

Ready(ev, buf, polled) ==
    [res |-> "some", event |-> ev, buffer |-> buf, polled |-> polled]
Pending(buf) ==
    [res |-> "pending", event |-> ErrEvent(""), buffer |-> buf, polled |-> TRUE]
\* A decoder that hands out the unterminated rest of its buffer at the end.
Ended_with_rest(buf) ==
    [res |-> "some", event |-> data_line_event(buf), buffer |-> <<>>,
     polled |-> TRUE]

Ended(buf) ==
    [res |-> "none", event |-> ErrEvent(""), buffer |-> buf, polled |-> TRUE]

\* <SseStream as Stream>::poll_next on buffer `buf` when the inner stream
\* would answer `item`.  polled says whether the inner stream was polled
\* (and the item consumed).
poll_next(buf, item) ==
    LET first == parse_sse_events(buf)
    IN IF first.events # <<>>
       THEN Ready(Head(first.events), first.buffer, FALSE)
       ELSE CASE item.kind = "chunk" ->
                   IF from_utf8_ok(item.bytes)
                   THEN LET again == parse_sse_events(first.buffer \o item.bytes)
                        IN IF again.events # <<>>
                           THEN Ready(Head(again.events), again.buffer, TRUE)
                           ELSE Pending(again.buffer)
                   ELSE Ready(ErrEvent("Invalid UTF-8"), first.buffer, TRUE)
              [] item.kind = "error" ->
                   Ready(ErrEvent("Stream error"), first.buffer, TRUE)
              [] OTHER ->
                   IF trim_end(trim_start(first.buffer)) # <<>>
                   THEN LET last == parse_sse_events(first.buffer)
                        IN IF last.events # <<>>
                           THEN Ready(Head(last.events), last.buffer, TRUE)
                           ELSE Ended(last.buffer)
                   ELSE Ended(first.buffer)

\* The elements a consumer gets from a decoder with buffer `buf` whose inner
\* stream delivers `chunks` and then ends.
RECURSIVE collect(_, _)
collect(buf, chunks) ==
    LET item == IF chunks = <<>> THEN NoneItem ELSE ChunkItem(Head(chunks))
        r == poll_next(buf, item)
        left == IF r.polled /\ chunks # <<>> THEN Tail(chunks) ELSE chunks
    IN IF r.res = "none" THEN <<>>
       ELSE IF r.res = "some" THEN <<r.event>> \o collect(r.buffer, left)
       ELSE collect(r.buffer, left)

\* A client that takes a redirection for a success.
is_success_below_400(status) == status >= 200 /\ status < 400

\* StatusCode::is_success
is_success(status) == status >= 200 /\ status < 300

\* The body of a response that could not be read.
UnknownError == <<"Unknown error">>

\* anyhow::bail!("HTTP error {}: {}", status, body)
http_error(status, body) == <<"HTTP error ", status, ": ", body>>

\* stream_request is called; the server is about to answer with `input` as
\* the body of its response.
InitSse ==
    /\ \E input \in Inputs(MaxLines) \ { <<>> } :
           sse = [pc |-> "request", input |-> input, rest |-> input,
                  failed |-> FALSE, split |-> FALSE,
                  buffer |-> <<>>, out |-> <<>>,
                  status |-> 0, error |-> <<>>]
    /\ poll = Off /\ cli = Off /\ man = Off /\ det = Off /\ par = Off

\* RemoteClient::stream_request: the POST fails, or the response arrives.
\* A response whose status is not a success is read to its end as text
\* (or not, when the transport fails) and becomes the error; over any other
\* response the decoder is built.
StreamRequest ==
    /\ sse.pc = "request"
    /\ \/ sse' = [sse EXCEPT !.pc = "err",
                              !.error = <<"error sending request">>]
       \/ \E status \in {199, 200, 299, 300, 404, 500} :
             IF is_success(status)
             THEN sse' = [sse EXCEPT !.pc = "open", !.status = status]
             ELSE \E body \in {sse.input, UnknownError} :
                     sse' = [sse EXCEPT !.pc = "err", !.status = status,
                                        !.error = http_error(status, body)]
    /\ UNCHANGED <<poll, cli, man, det, par>>

\* One poll of the decoder by its consumer.  The inner stream hands over the
\* next chunk (any non-empty prefix of what is left), fails (a transport
\* error, after which it has nothing more), or ends.  split records that
\* the input did not arrive as one chunk.
SsePoll(item) ==
    LET r == poll_next(sse.buffer, item)
        taken == r.polled /\ item.kind = "chunk"
    IN [sse EXCEPT
          !.pc = IF r.res = "none" THEN "ended" ELSE "open",
          !.buffer = r.buffer,
          !.rest = IF taken THEN Drop(@, Len(item.bytes))
                   ELSE IF r.polled /\ item.kind = "error" THEN <<>>
                   ELSE @,
          !.failed = @ \/ (r.polled /\ item.kind = "error"),
          !.split = @ \/ (taken /\ Len(item.bytes) < Len(sse.input)),
          !.out = IF r.res = "some" THEN Append(@, r.event) ELSE @]

SsePollNext ==
    /\ sse.pc = "open"
    /\ \/ \E n \in 1..Len(sse.rest) :
             sse' = SsePoll(ChunkItem(Take(sse.rest, n)))
       \/ sse.rest # <<>> /\ sse' = SsePoll(ErrorItem)
       \/ sse.rest = <<>> /\ sse' = SsePoll(NoneItem)
    /\ UNCHANGED <<poll, cli, man, det, par>>

NextSse == StreamRequest \/ SsePollNext

SpecSse == InitSse /\ [][NextSse]_vars

\* handle_stream_response is called with the decoder stream_request built
\* over a success response; it has printed its two header lines and sits in
\* its loop.  The handler owns the stream.
InitStream ==
    /\ \E input \in Inputs(MaxLines) \ { <<>> } :
           sse = [pc |-> "open", input |-> input, rest |-> input,
                  failed |-> FALSE, split |-> FALSE,
                  buffer |-> <<>>, out |-> <<>>,
                  status |-> 200, error |-> <<>>,
                  handler |-> "select", printed |-> <<>>, stream |-> "held",
                  result |-> ""]
    /\ poll = Off /\ cli = Off /\ man = Off /\ det = Off /\ par = Off

\* A handler that borrows the stream: its caller still holds the stream
\* when the handler returns.
leave_loop_borrowed(s, how) == [s EXCEPT !.handler = how, !.result = "Ok"]

\* A handler that reports an error element and goes on with its loop.
leave_loop_unless_error(s, how) ==
    IF how = "error" THEN s
    ELSE [s EXCEPT !.handler = how, !.stream = "dropped", !.result = "Ok"]

\* `break` followed by Ok(()): the function returns and its parameter
\* `stream`, taken by value, is dropped with the connection it holds.
leave_loop(s, how) ==
    [s EXCEPT !.handler = how, !.stream = "dropped", !.result = "Ok"]

\* One turn of the select! loop of handle_stream_response.  The interrupt
\* may be delivered at any time; stream.next() polls the decoder, which
\* is either not ready (the loop selects again) or hands over an element.
handle_stream_response ==
    /\ sse.handler = "select"
    /\ \/ sse' = leave_loop(sse, "interrupted")
       \/ \E item \in {ChunkItem(Take(sse.rest, n)) : n \in 1..Len(sse.rest)}
                       \cup {ErrorItem, NoneItem} :
             /\ IF sse.rest = <<>> THEN item = NoneItem ELSE item # NoneItem
             /\ LET r == poll_next(sse.buffer, item)
                    s == SsePoll(item)
                IN sse' =
                     CASE r.res = "pending" -> s
                       [] r.res = "none" -> leave_loop(s, "ended")
                       [] r.res = "some" /\ r.event.ok ->
                            [s EXCEPT !.printed = Append(@, r.event.json)]
                       [] OTHER -> leave_loop(s, "error")
    /\ UNCHANGED <<poll, cli, man, det, par>>

SpecStream == InitStream /\ [][handle_stream_response]_vars

(***************************************************************************)
(* Readiness poller, cli/support/polling.rs.                               *)
(*                                                                         *)
(* Time is counted in units since the call.  A timer that has expired and  *)
(* a future that can make progress are served before time passes.          *)
(***************************************************************************)
MaxInterval == 2
MaxTimeout == 4
MaxCheckTime == 2
MaxSucceedOn == 3

\* A check invocation that never completes.
Hangs == -1

TimeoutMsg == "timeout_message"
CheckErr == "check error"

\* A loop that does not wait for the interval between two checks.
next_tick_at_once(due, period) == due

\* Interval::tick with the default missed-tick behaviour: the next tick is
\* due one period after the tick just taken was due.
next_tick(due, period) == due + period

\* interval.tick().await can complete.
tick_ready(p) == p.pc = "tick" /\ p.now >= p.tick_due

\* check_fn().await can complete.
check_ready(p) ==
    p.pc = "check" /\ p.check_ends # Hangs /\ p.now >= p.check_ends

\* A deadline that is looked at between two checks only.
timeout_fires_between_checks(p) ==
    p.pc = "tick" /\ ~tick_ready(p) /\ p.now >= p.timeout

\* tokio::time::timeout(timeout_duration, ..): the loop is polled first, the
\* deadline when the loop is pending, also while a check is in flight.
timeout_fires(p) ==
    /\ p.pc \in {"tick", "check"}
    /\ ~tick_ready(p) /\ ~check_ready(p)
    /\ p.now >= p.timeout

\* A poller that reports the error of the last failed check.
timeout_error_of_check(p) == IF p.last_err # "" THEN p.last_err ELSE TimeoutMsg

\* What poll_until_ready returns when the deadline wins.
timeout_error(p) == TimeoutMsg

\* poll_until_ready is called with a check that first succeeds on its
\* succeed_on-th invocation (0: never), a timeout and an interval.
InitPoll ==
    /\ \E i \in 1..MaxInterval, t \in 1..MaxTimeout, n \in 0..MaxSucceedOn :
           poll = [pc |-> "tick", now |-> 0, interval |-> i, timeout |-> t,
                   succeed_on |-> n, tick_due |-> 0, attempts |-> 0,
                   check_ends |-> 0, last_err |-> "", cancelled |-> FALSE,
                   result |-> "", error |-> ""]
    /\ sse = Off /\ cli = Off /\ man = Off /\ det = Off /\ par = Off

\* interval.tick().await completes and check_fn() is invoked.
PollTick ==
    /\ tick_ready(poll)
    /\ \E ends \in {poll.now + d : d \in 0..MaxCheckTime} \cup {Hangs} :
          poll' = [poll EXCEPT !.pc = "check",
                               !.tick_due = next_tick(@, poll.interval),
                               !.attempts = @ + 1,
                               !.check_ends = ends]
    /\ UNCHANGED <<sse, cli, man, det, par>>

\* check_fn().await completes: Ok returns Ok(()), an error is dropped and
\* the loop goes on.
PollCheckDone ==
    /\ check_ready(poll)
    /\ IF poll.attempts = poll.succeed_on
       THEN poll' = [poll EXCEPT !.pc = "done", !.result = "ok"]
       ELSE poll' = [poll EXCEPT !.pc = "tick", !.last_err = CheckErr]
    /\ UNCHANGED <<sse, cli, man, det, par>>

\* The deadline wins: the loop (and a check in flight) is dropped.
PollTimeout ==
    /\ timeout_fires(poll)
    /\ poll' = [poll EXCEPT !.pc = "done", !.result = "err",
                            !.error = timeout_error(poll),
                            !.cancelled = (poll.pc = "check")]
    /\ UNCHANGED <<sse, cli, man, det, par>>

\* Time passes while the poller waits (the model stops the clock one
\* interval after the deadline).
PollWait ==
    /\ poll.pc \in {"tick", "check"}
    /\ ~tick_ready(poll) /\ ~check_ready(poll) /\ ~timeout_fires(poll)
    /\ poll.now < poll.timeout + poll.interval
    /\ poll' = [poll EXCEPT !.now = @ + 1]
    /\ UNCHANGED <<sse, cli, man, det, par>>

NextPoll == PollTick \/ PollCheckDone \/ PollTimeout \/ PollWait

SpecPoll == InitPoll /\ [][NextPoll]_vars

\* The runtime keeps polling and time keeps passing.
SpecPollFair == SpecPoll /\ WF_vars(NextPoll)

(***************************************************************************)
(* Protocol client, cli/client.rs.                                         *)
(*                                                                         *)
(* A JSON value is a record with its kind; an object carries a function    *)
(* from its keys to values.  The text of an error is the sequence of the   *)
(* parts it is formatted from.                                             *)
(***************************************************************************)
MaxClock == 2
MaxChecks == 1

Absent == [kind |-> "absent"]
Null == [kind |-> "null"]
IntV(n) == [kind |-> "int", n |-> n]
StrV(t) == [kind |-> "str", s |-> t]
ObjV(f) == [kind |-> "obj", fields |-> f]

\* An object of the given keys, the absent ones left out.
MakeObj(f) ==
    ObjV([k \in {x \in DOMAIN f : f[x] # Absent} |-> f[k]])

ErrorVals ==
    {Absent, Null, StrV("boom")}
        \cup {MakeObj([code |-> c, message |-> m]) :
                 c \in {Absent, IntV(-32601), IntV(5), [kind |-> "float"]},
                 m \in {Absent, StrV("not found"),
                        StrV("Connection refused"), IntV(1)}}

Envelope(id, r, e) ==
    MakeObj([jsonrpc |-> StrV("2.0"), id |-> IntV(id), result |-> r,
             error |-> e])

\* The JSON bodies a server may answer request `id` with.
JsonReplies(id) ==
    {Null} \cup {Envelope(id, r, e) :
                    r \in {Absent, Null, IntV(7), StrV("r")}, e \in ErrorVals}

\* What the HTTP exchange ends with: no connection, a body that is not
\* JSON, or a JSON body.
SendFailed == [kind |-> "send_failed"]
NotJson == [kind |-> "not_json"]

Replies(id) == {SendFailed, NotJson} \cup JsonReplies(id)

\* Value::get(key): Some(value) for a key an object has.
has(v, key) == v.kind = "obj" /\ key \in DOMAIN v.fields

\* Value's Index: the value of the key, Null when there is none.
index(v, key) == IF has(v, key) THEN v.fields[key] ELSE Null

Ok(v) == [ok |-> TRUE, value |-> v, err |-> <<>>]
Err(text) == [ok |-> FALSE, value |-> Null, err |-> text]

\* A client that drops the code of the error object.
error_code_dropped(error_obj) == 0

\* error_obj.get("code").and_then(|c| c.as_i64()).unwrap_or(0)
error_code(error_obj) ==
    IF has(error_obj, "code") /\ error_obj.fields["code"].kind = "int"
    THEN error_obj.fields["code"].n
    ELSE 0

\* error_obj.get("message").and_then(|m| m.as_str()).unwrap_or("Unknown error")
error_message(error_obj) ==
    IF has(error_obj, "message") /\ error_obj.fields["message"].kind = "str"
    THEN error_obj.fields["message"].s
    ELSE "Unknown error"

\* A client that hands back the whole reply.
request_outcome_envelope(reply) == Ok(reply)

\* RemoteClient::request from the reply on: what the call returns.
request_outcome(reply) ==
    CASE reply = SendFailed -> Err(<<"error sending request">>)
      [] reply = NotJson -> Err(<<"error decoding response body">>)
      [] has(reply, "error") ->
            LET error == reply.fields["error"]
            IN IF error.kind = "obj"
               THEN Err(<<"Remote error [", error_code(error), "]: ",
                          error_message(error)>>)
               ELSE Err(<<"Remote error: ", error>>)
      [] OTHER -> Ok(index(reply, "result"))

\* RemoteClient::generate_request_id: the clock's reading.
generate_request_id(clock) == clock

is_connection_error(error_str) ==
    LET marks == {"Connection refused", "tcp connect error",
                  "error sending request"}
    IN \/ Len(error_str) = 1 /\ error_str[1] \in marks
       \/ Len(error_str) = 2 /\ error_str[2].kind = "str"
                             /\ error_str[2].s \in marks
       \/ Len(error_str) = 4 /\ error_str[4] \in marks

\* A probe that takes every failure for "not ready".
is_ready_never_fails(outcome) == [ok |-> TRUE, ready |-> outcome.ok]

\* RemoteClient::is_ready from the outcome of its bevy/list request on.
is_ready(outcome) ==
    IF outcome.ok THEN [ok |-> TRUE, ready |-> TRUE]
    ELSE IF is_connection_error(outcome.err) THEN outcome
    ELSE [ok |-> TRUE, ready |-> FALSE]

\* is_port_responsive: client.is_ready().await.unwrap_or(false)
port_responsive(outcome) ==
    LET r == is_ready(outcome) IN IF r.ok THEN r.ready ELSE FALSE

\* A detection that probes the requested port alone.
detect_running_instances_one_probe(requested_port, outcomes) ==
    [ok |-> TRUE,
     ports |-> IF port_responsive(outcomes[requested_port])
               THEN <<requested_port>> ELSE <<>>]

\* detect_running_instances: the requested port is probed first and, when
\* it is the default port, the five ports after it; outcomes[p] is the
\* outcome of the bevy/list request of the probe of port p.
detect_running_instances(requested_port, outcomes) ==
    LET probed == IF requested_port = 15702
                  THEN [k \in 1..6 |-> 15702 + k - 1]
                  ELSE <<requested_port>>
    IN [ok |-> TRUE,
        ports |-> SelectSeq(probed, LAMBDA p : port_responsive(outcomes[p]))]

\* A gate that takes every answer of the probe for readiness.
wait_check_always_ok(outcome) == [ok |-> TRUE]

\* The check wait_for_app_ready hands to poll_until_ready.
wait_check(outcome) ==
    LET r == is_ready(outcome)
    IN IF r.ok
       THEN IF r.ready THEN [ok |-> TRUE] ELSE Err(<<"App not ready">>)
       ELSE IF is_connection_error(r.err)
            THEN Err(<<"Connection error: ">> \o r.err)
            ELSE Err(<<"App error: ">> \o r.err)

wait_timeout_message(port) ==
    <<"No app is running on port ", port,
      ". Start the app first or use --managed mode.">>

InitClient ==
    /\ cli = [pc |-> "idle", clock |-> 0, request |-> Null, reply |-> Null,
              outcome |-> Ok(Null), caller |-> "request", checks |-> 0,
              returned |-> Ok(Null), command |-> "none", port |-> 17000]
    /\ sse = Off /\ poll = Off /\ man = Off /\ det = Off /\ par = Off

\* The clock moves on between two calls.
ClientClock ==
    /\ cli.pc \in {"idle", "done"}
    /\ cli.clock < MaxClock
    /\ cli' = [cli EXCEPT !.clock = @ + 1]
    /\ UNCHANGED <<sse, poll, man, det, par>>

\* The envelope RemoteClient::request posts.
request_envelope(clock, method, params) ==
    MakeObj([jsonrpc |-> StrV("2.0"), method |-> StrV(method),
             id |-> IntV(generate_request_id(clock)), params |-> params])

\* A caller starts, up to the POST of the envelope by RemoteClient::request;
\* is_ready asks for bevy/list without parameters.
RequestSend ==
    /\ cli.pc \in {"idle", "done"}
    /\ \E caller \in {"request", "is_ready", "detect_running_instances",
                      "wait_for_app_ready"} :
          \E method \in IF caller = "request" THEN {"bevy/list", "bevy/get"}
                        ELSE {"bevy/list"},
             params \in IF caller = "request" THEN {Null, IntV(1)}
                        ELSE {Null} :
             cli' = [cli EXCEPT
                       !.pc = "sent", !.caller = caller, !.checks = 0,
                       !.command = "none",
                       !.request = request_envelope(cli.clock, method, params)]
    /\ UNCHANGED <<sse, poll, man, det, par>>

\* RemoteClient::request from the answer on, and what the caller makes of
\* it.  A failed check of wait_for_app_ready leaves the poller waiting for
\* its next tick.
RequestReturn ==
    /\ cli.pc = "sent"
    /\ \E reply \in Replies(cli.request.fields["id"].n) :
          LET outcome == request_outcome(reply)
              c == [cli EXCEPT !.reply = reply, !.outcome = outcome]
          IN cli' =
               CASE cli.caller = "request" ->
                      [c EXCEPT !.pc = "done", !.returned = outcome]
                 [] cli.caller = "is_ready" ->
                      [c EXCEPT !.pc = "done", !.returned = is_ready(outcome)]
                 [] cli.caller = "detect_running_instances" ->
                      [c EXCEPT !.pc = "done",
                                !.returned = detect_running_instances(
                                                 17000, [p \in {17000} |-> outcome])]
                 [] OTHER ->
                      IF wait_check(outcome).ok
                      THEN [c EXCEPT !.pc = "done",
                                     !.returned = [ok |-> TRUE]]
                      ELSE [c EXCEPT !.pc = "tick"]
    /\ UNCHANGED <<sse, poll, man, det, par>>

\* poll_until_ready under wait_for_app_ready after a failed check: the next
\* tick runs the check again.
WaitTick ==
    /\ cli.pc = "tick"
    /\ cli.checks < MaxChecks
    /\ cli' = [cli EXCEPT !.pc = "sent", !.checks = @ + 1,
                          !.request = request_envelope(cli.clock, "bevy/list", Null)]
    /\ UNCHANGED <<sse, poll, man, det, par>>

\* poll_until_ready under wait_for_app_ready: the five seconds are over.
WaitTimeout ==
    /\ cli.pc = "tick"
    /\ cli' = [cli EXCEPT !.pc = "done",
                          !.returned = Err(wait_timeout_message(cli.port))]
    /\ UNCHANGED <<sse, poll, man, det, par>>

\* execute_standalone_command.  It begins with the first probe of
\* wait_for_app_ready, or for Commands::Ready with the request of
\* client.is_ready(); once the wait returned Ok the second match sends the
\* request of the command (Commands::Get here).  An Err of the wait leaves
\* the function with `?`.
execute_standalone_command ==
    /\ \/ /\ cli.pc \in {"idle", "done"}
          /\ \E command \in {"ready", "get"} :
                cli' = [cli EXCEPT
                          !.pc = "sent", !.checks = 0, !.command = command,
                          !.caller = IF command = "ready" THEN "is_ready"
                                     ELSE "wait_for_app_ready",
                          !.request = request_envelope(cli.clock, "bevy/list",
                                                       Null)]
       \/ /\ cli.pc = "done" /\ cli.command = "get"
          /\ cli.caller = "wait_for_app_ready" /\ cli.returned.ok
          /\ cli' = [cli EXCEPT
                       !.pc = "sent", !.caller = "request",
                       !.request = request_envelope(cli.clock, "bevy/get",
                                                    IntV(1))]
    /\ UNCHANGED <<sse, poll, man, det, par>>

\* The CLI was started with a direct command and --port `requested` (the
\* default port when the flag is absent); apps are the ports on which an
\* application answers the probe: any of the default port, the last port
\* probed after it and the user's port.
InitDirect ==
    /\ \E requested \in {15702, 17000}, apps \in SUBSET {15702, 15707, 17000} :
           cli = [pc |-> "main", clock |-> 0, request |-> Null, reply |-> Null,
                  outcome |-> Ok(Null), caller |-> "main", checks |-> 0,
                  returned |-> Ok(Null), command |-> "none", port |-> 0,
                  requested |-> requested, apps |-> apps]
    /\ sse = Off /\ poll = Off /\ man = Off /\ det = Off /\ par = Off

\* main with a direct command: detect_running_instances(cli.port) and the
\* match on the number of instances; with one, the client of that port is
\* built for execute_standalone_command, otherwise the process exits with
\* status 1.  A port without application refuses the connection or
\* answers with an error.
main_direct_command ==
    /\ cli.pc = "main"
    /\ \E outcomes \in [{17000} \cup 15702..15707 ->
                          {Ok(Null), Err(<<"error sending request">>),
                           Err(<<"HTTP error">>)}] :
          /\ \A p \in DOMAIN outcomes : outcomes[p].ok = (p \in cli.apps)
          /\ LET running_instances ==
                     detect_running_instances(cli.requested, outcomes).ports
             IN cli' =
                  CASE Len(running_instances) = 0 ->
                         [cli EXCEPT
                            !.pc = "exit",
                            !.returned = Err(wait_timeout_message(cli.requested))]
                    [] Len(running_instances) = 1 ->
                         [cli EXCEPT !.pc = "idle",
                                     !.port = running_instances[1]]
                    [] OTHER ->
                         [cli EXCEPT
                            !.pc = "exit",
                            !.returned =
                               Err(<<"Multiple app instances detected on ports: ",
                                     running_instances>>)]
    /\ UNCHANGED <<sse, poll, man, det, par>>

SpecDirect ==
    InitDirect /\ [][\/ main_direct_command \/ execute_standalone_command
                     \/ RequestReturn \/ WaitTick \/ WaitTimeout]_vars

NextClient ==
    \/ ClientClock \/ RequestSend \/ RequestReturn \/ WaitTick \/ WaitTimeout
    \/ execute_standalone_command

SpecClient == InitClient /\ [][NextClient]_vars

(***************************************************************************)
(* Port prober, cli/support/port_utils.rs, and the managed-mode            *)
(* supervisor, cli/managed.rs.                                             *)
(*                                                                         *)
(* The socket table says for every port who holds it: nobody ("free"), the *)
(* child that has bound it but does not listen yet ("bound"), the child    *)
(* listening ("child") or another process listening ("other").  A bind     *)
(* fails while anybody holds the port; a connect succeeds when somebody    *)
(* listens.                                                                *)
(***************************************************************************)
DEFAULT_REMOTE_PORT == 15702
MIN_PORT == 15703
MAX_PORT == 16702
MAX_ATTEMPTS == 50

\* The ports of the random range that the model draws from, the polls a
\* wait makes before its timeout, and the commands of a batch.
RangeSize == 2
MaxPolls == 2
MaxCommands == 3

\* A random range that begins at the default port.
RandomPorts_from_default == DEFAULT_REMOTE_PORT..(MIN_PORT + RangeSize - 1)

RandomPorts == MIN_PORT..(MIN_PORT + RangeSize - 1)

no_port_error == "Err: Could not find an available port"
command_error == "Err: command failed"
UserPorts == {17000}
Ports == RandomPorts \cup UserPorts

\* An availability probe that reads the bind result the wrong way round.
is_port_available_inverted(sock, port) == sock[port] # "free"

\* is_port_available: TcpListener::bind(("127.0.0.1", port)).is_ok(); the
\* probe's own listener is dropped before the call returns.
is_port_available(sock, port) == sock[port] = "free"

\* A connect check that never fails.
port_connectable_always(sock, port) == TRUE

\* The check of wait_for_port_connectable: TcpStream::connect(..) is Ok.
port_connectable(sock, port) == sock[port] \in {"child", "other"}

\* The timeout message wait_for_port_connectable hands to poll_until_ready,
\* and the two messages it bails with.
poll_timeout_message == "Timeout waiting for app to start on port"
app_failed_error ==
    "Timeout waiting for app to start on port. The app may have failed to start."
port_in_use_error == "Port is already in use by another process."

\* A wait that returns the error of its poll.
connectable_timeout_error_of_poll(sock, port) == poll_timeout_message

\* The error wait_for_port_connectable returns after the poll timed out.
connectable_timeout_error(sock, port) ==
    IF is_port_available(sock, port)
    THEN app_failed_error
    ELSE port_in_use_error

\* Command::kill_on_drop as tokio sets it when it is not asked for.
kill_on_drop_default == FALSE

\* .kill_on_drop(true) of the child's Command.
kill_on_drop == TRUE

\* The ports a process that is gone no longer holds.
release_child(sock) ==
    [p \in Ports |-> IF sock[p] \in {"bound", "child"} THEN "free" ELSE sock[p]]

\* Drop of the tokio Child when run_managed's scope is left.
drop_child(m) ==
    IF m.child = "running" /\ kill_on_drop
    THEN [m EXCEPT !.child = "killed", !.sock = release_child(@)]
    ELSE m

\* Any return of run_managed: the locals are dropped.
returned(m, result) ==
    [drop_child(m) EXCEPT !.pc = "returned", !.result = result]

InitManaged ==
    /\ \E requested \in {DEFAULT_REMOTE_PORT} \cup UserPorts,
          commands \in 0..MaxCommands,
          taken \in SUBSET Ports :
           man = [pc |-> "resolve", requested |-> requested,
                  commands |-> commands, port |-> 0, picked |-> FALSE,
                  attempts |-> 0, child |-> "none", net |-> "none",
                  sock |-> [p \in Ports |-> IF p \in taken THEN "other" ELSE "free"],
                  stdout_task |-> "none", stderr_task |-> "none",
                  polls |-> 0, executed |-> 0, trace |-> <<>>, result |-> ""]
    /\ sse = Off /\ poll = Off /\ cli = Off /\ det = Off /\ par = Off

\* detect_bevy_app, find_workspace_binary_with_target_dir, canonicalize and
\* the choice between the caller's port and a random one.
ManResolve ==
    /\ man.pc = "resolve"
    /\ \E found \in BOOLEAN :
          man' = IF ~found THEN returned(man, "Err: app not found")
                 ELSE IF man.requested = DEFAULT_REMOTE_PORT
                 THEN [man EXCEPT !.pc = "pick"]
                 ELSE [man EXCEPT !.pc = "spawn", !.port = man.requested]
    /\ UNCHANGED <<sse, poll, cli, det, par>>

\* pick_random_available_port: one turn of its loop (attempts is its loop
\* counter, gone when it returns a port).
ManPickPort ==
    /\ man.pc = "pick"
    /\ \E port \in RandomPorts :
          man' = IF is_port_available(man.sock, port)
                 THEN [man EXCEPT !.pc = "spawn", !.port = port,
                                  !.picked = TRUE, !.attempts = 0]
                 ELSE IF man.attempts + 1 = MAX_ATTEMPTS
                 THEN returned([man EXCEPT !.attempts = @ + 1], no_port_error)
                 ELSE [man EXCEPT !.attempts = @ + 1]
    /\ UNCHANGED <<sse, poll, cli, det, par>>

\* Command::new(..).kill_on_drop(true)..spawn()?
ManSpawn ==
    /\ man.pc = "spawn"
    /\ \E spawned \in BOOLEAN :
          man' = IF spawned
                 THEN [man EXCEPT !.pc = "pipes", !.child = "running",
                                  !.net = "starting"]
                 ELSE returned(man, "Err: spawn failed")
    /\ UNCHANGED <<sse, poll, cli, det, par>>

\* child.stdout.take(), child.stderr.take() and the two forwarding tasks.
ManPipes ==
    /\ man.pc = "pipes"
    /\ \E taken \in BOOLEAN :
          man' = IF taken
                 THEN [man EXCEPT !.pc = "wait_port", !.polls = MaxPolls,
                                  !.stdout_task = "running",
                                  !.stderr_task = "running"]
                 ELSE returned(man, "Err: Failed to get stdout")
    /\ UNCHANGED <<sse, poll, cli, det, par>>

\* wait_for_port(port, 10 s): one connect of wait_for_port_connectable's
\* poll, and the bind probe that words the error once the poll timed out.
ManWaitPort ==
    /\ man.pc = "wait_port"
    /\ man' = IF port_connectable(man.sock, man.port)
              THEN [man EXCEPT !.pc = "commands", !.polls = 0]
              ELSE IF man.polls > 0 THEN [man EXCEPT !.polls = @ - 1]
              ELSE returned(man, connectable_timeout_error(man.sock, man.port))
    /\ UNCHANGED <<sse, poll, cli, det, par>>

\* if let Some(commands) = commands { run_command_list } else { bail! }
ManCommands ==
    /\ man.pc = "commands"
    /\ man' = IF man.commands = 0
              THEN returned(man, "Err: No commands provided for managed mode")
              ELSE [man EXCEPT !.pc = "app_ready", !.polls = MaxPolls]
    /\ UNCHANGED <<sse, poll, cli, det, par>>

\* run_command_list: wait_for_app_ready, one is_ready probe of its poll.
ManAppReady ==
    /\ man.pc = "app_ready"
    /\ man' = IF port_connectable(man.sock, man.port)
              THEN [man EXCEPT !.pc = "exec", !.polls = 0]
              ELSE IF man.polls > 0 THEN [man EXCEPT !.polls = @ - 1]
              ELSE returned(man, "Err: No app is running on port")
    /\ UNCHANGED <<sse, poll, cli, det, par>>

\* A loop that goes on with the command after the next.
next_command_skips(m) == m.executed + 2

\* The for loop of run_command_list: the command after the ones done.
next_command(m) == m.executed + 1

\* run_command_list: the loop takes the next command of the list and begins
\* to execute it, or ends when the list is used up.
ManExecStart ==
    /\ man.pc = "exec"
    /\ man' = IF man.executed >= man.commands
              THEN [man EXCEPT !.pc = "kill"]
              ELSE [man EXCEPT !.pc = "executing",
                               !.trace = Append(@, <<"start", next_command(man)>>)]
    /\ UNCHANGED <<sse, poll, cli, det, par>>

\* run_command_list: the command in progress completes (the sleep of a
\* wait, or execute_command).  A BRP command needs somebody to answer; the
\* shutdown command makes the child exit; a failure leaves the loop with `?`.
ManExecDone ==
    /\ man.pc = "executing"
    /\ LET command == man.trace[Len(man.trace)][2]
       IN \E outcome \in {"ok", "wait", "shutdown", "fail"} :
              /\ outcome = "ok" => port_connectable(man.sock, man.port)
              /\ outcome = "shutdown" => man.sock[man.port] = "child"
              /\ man' = CASE outcome \in {"ok", "wait"} ->
                               [man EXCEPT !.pc = "exec", !.executed = command,
                                           !.trace = Append(@, <<"done", command>>)]
                          [] outcome = "shutdown" ->
                               [man EXCEPT !.pc = "exec", !.executed = command,
                                           !.trace = Append(@, <<"done", command>>),
                                           !.child = "exited",
                                           !.sock = release_child(@)]
                          [] OTHER ->
                               returned([man EXCEPT
                                           !.trace = Append(@, <<"failed", command>>)],
                                        command_error)
    /\ UNCHANGED <<sse, poll, cli, det, par>>

\* child.kill().await?; stdout_task.abort(); stderr_task.abort(); Ok(())
ManKill ==
    /\ man.pc = "kill"
    /\ \E killed \in BOOLEAN :
          man' = IF killed
                 THEN returned(
                        [man EXCEPT
                           !.child = IF @ = "running" THEN "killed" ELSE @,
                           !.sock = release_child(@),
                           !.stdout_task = IF @ = "running" THEN "aborted" ELSE @,
                           !.stderr_task = IF @ = "running" THEN "aborted" ELSE @],
                        "Ok")
                 ELSE returned(man, "Err: kill failed")
    /\ UNCHANGED <<sse, poll, cli, det, par>>

\* The child binds its port, or finds it taken and goes on without it.
ChildBind ==
    /\ man.child = "running" /\ man.net = "starting"
    /\ man' = IF man.sock[man.port] = "free"
              THEN [man EXCEPT !.net = "bound", !.sock[man.port] = "bound"]
              ELSE [man EXCEPT !.net = "failed"]
    /\ UNCHANGED <<sse, poll, cli, det, par>>

\* The child starts to listen.
ChildListen ==
    /\ man.child = "running" /\ man.net = "bound"
    /\ man' = [man EXCEPT !.net = "up", !.sock[man.port] = "child"]
    /\ UNCHANGED <<sse, poll, cli, det, par>>

\* The child exits by itself.
ChildExit ==
    /\ man.child = "running" /\ man.pc # "returned"
    /\ man' = [man EXCEPT !.child = "exited", !.sock = release_child(@)]
    /\ UNCHANGED <<sse, poll, cli, det, par>>

\* A forwarding task reads the end of its pipe once the child is gone.
TaskEnds ==
    /\ man.child \in {"exited", "killed"}
    /\ \/ /\ man.stdout_task = "running"
          /\ man' = [man EXCEPT !.stdout_task = "finished"]
       \/ /\ man.stderr_task = "running"
          /\ man' = [man EXCEPT !.stderr_task = "finished"]
    /\ UNCHANGED <<sse, poll, cli, det, par>>

\* Another process takes a free port or gives one back.
OtherProcess ==
    /\ man.pc \notin {"resolve", "returned"}
    /\ \E p \in Ports :
          \/ man.sock[p] = "free" /\ man' = [man EXCEPT !.sock[p] = "other"]
          \/ man.sock[p] = "other" /\ man' = [man EXCEPT !.sock[p] = "free"]
    /\ UNCHANGED <<sse, poll, cli, det, par>>

NextManaged ==
    \/ ManResolve \/ ManPickPort \/ ManSpawn \/ ManPipes \/ ManWaitPort
    \/ ManCommands \/ ManAppReady \/ ManExecStart \/ ManExecDone \/ ManKill
    \/ ChildBind \/ ChildListen \/ ChildExit \/ TaskEnds \/ OtherProcess

SpecManaged == InitManaged /\ [][NextManaged]_vars

(***************************************************************************)
(* Detached session manager, cli/detached.rs.                              *)
(*                                                                         *)
(* The temp directory holds at most one descriptor file per port and the   *)
(* log files, named by the millisecond they were created in.  Every        *)
(* start_detached invocation is a process of its own (a starter); the      *)
(* child it spawns carries the starter's number as its process id.         *)
(***************************************************************************)
MaxStarts == 2
MaxProbes == 1
MaxInFlight == 1

Starters == 1..MaxStarts
NoFile == [kind |-> "none"]
Partial == [kind |-> "partial"]

\* SessionInfo as serde_json::to_string_pretty writes it.
SessionInfo(pid, port, log) ==
    [kind |-> "session", pid |-> pid, port |-> port, log |-> log]

\* A descriptor that records the process id of the CLI instead of the child.
session_info_own_pid(i, st) == SessionInfo(0, st.port, st.log)

\* The SessionInfo start_detached saves: pid is child.id().
session_info(i, st) == SessionInfo(i, st.port, st.log)

\* get_session_info_path(port) and get_session_log_path(timestamp).
DescFile(port) == <<"json", port>>
LogFile(time) == <<"log", time>>

\* A process table that shows every pid as alive.
is_process_alive_always(d, pid) == TRUE

\* is_process_alive(pid): the pid is in the process table.
is_process_alive(d, pid) ==
    pid \in Starters /\ d.proc[pid] \in {"starting", "up"}

\* is_port_responsive(port) as detect_running_instances(port) uses it for
\* the requested port: some process answers the BRP probe there.
is_port_responsive(d, port) ==
    \E i \in Starters : d.proc[i] = "up" /\ d.st[i].port = port

\* A kill that is never sent.
kill_process_not_sent(proc, pid) == proc

\* kill_process(pid): kills the process when it is in the process table.
kill_process(proc, pid) ==
    [proc EXCEPT ![pid] = "none"]

\* A Child whose drop kills its process.
drop_child_handle_kills(proc, pid) == [proc EXCEPT ![pid] = "none"]

\* Drop of the std::process::Child when start_detached returns: the
\* process is left running.
drop_child_handle(proc, pid) == proc

start_timeout_error ==
    "Timeout waiting for app to start. Check log file for errors."

InFlight(d) ==
    \/ \E i \in Starters : d.st[i].pc \notin {"idle", "ok", "err"}
    \/ d.info.pc \notin {"idle", "done"}

\* An empty temp directory and no process, before any invocation of the
\* tool; at most `limit` invocations run at the same time.
EmptyTempDir(limit) ==
    [limit |-> limit,
     clock |-> 0,
     desc |-> [p \in UserPorts |-> NoFile],
     logs |-> {},
     proc |-> [i \in Starters |-> "none"],
     st |-> [i \in Starters |-> [pc |-> "idle", port |-> 0, log |-> 0, probes |-> 0, error |-> ""]],
     info |-> [pc |-> "idle", port |-> 0, read |-> NoFile, answering |-> FALSE,
               app_running |-> FALSE, process_alive |-> FALSE,
               result |-> ""],
     clean |-> [pc |-> "idle", todo |-> {}, active |-> {},
                cleaned |-> {}, sessions |-> {}, dead |-> {}]]

InitDetached ==
    /\ det = EmptyTempDir(MaxInFlight)
    /\ sse = Off /\ poll = Off /\ cli = Off /\ man = Off /\ par = Off

\* The user runs one more invocation of the tool at the same time.
InitDetachedRace ==
    /\ det = EmptyTempDir(MaxInFlight + 1)
    /\ sse = Off /\ poll = Off /\ cli = Off /\ man = Off /\ par = Off

\* The number of invocations of the tool that are running.
Running(d) ==
    Cardinality({i \in Starters : d.st[i].pc \notin {"idle", "ok", "err"}})
       + (IF d.info.pc \in {"idle", "done"} THEN 0 ELSE 1)
       + (IF d.clean.pc \in {"idle", "done"} THEN 0 ELSE 1)

\* A start or an info call begins: a cleanup that is running no longer has
\* the temp directory to itself.  What an invocation that has returned
\* printed is kept until the next invocation begins.
Disturbed(d) ==
    [d EXCEPT !.clean.sessions = {}, !.clean.dead = {},
              !.clean.cleaned = IF d.clean.pc = "done" THEN {} ELSE @,
              !.info = IF @.pc = "done"
                       THEN [pc |-> "done", port |-> 0, read |-> NoFile,
                             answering |-> FALSE, app_running |-> FALSE,
                             process_alive |-> FALSE, result |-> ""]
                       ELSE @]

\* SystemTime::now() of a start gives the millisecond another start read
\* when that start is still running, and a later one otherwise.
SameMillisecond(d, t) ==
    /\ t = d.clock
    /\ \E j \in Starters : d.st[j].pc \notin {"idle", "ok", "err"} /\ d.st[j].log = t

\* start_detached up to the log file: detect_bevy_app, the millisecond
\* timestamp read from the system clock, File::create and the header lines.
StartLog(i) ==
    /\ det.st[i].pc = "idle"
    /\ \A j \in Starters : j < i => det.st[j].pc # "idle"
    /\ Running(det) < det.limit
    /\ \E port \in UserPorts, detected \in BOOLEAN,
          timestamp \in {t \in (1..MaxStarts) : t = det.clock + 1 \/ SameMillisecond(det, t)} :
          det' = IF detected
                 THEN [Disturbed(det) EXCEPT
                         !.clock = timestamp,
                         !.st[i] = [pc |-> "spawn", port |-> port,
                                    log |-> timestamp, probes |-> 0,
                                    error |-> ""],
                         !.logs = @ \cup {timestamp}]
                 ELSE [det EXCEPT !.st[i].pc = "err", !.st[i].port = port,
                                  !.st[i].error = "detect_bevy_app failed"]
    /\ UNCHANGED <<sse, poll, cli, man, par>>

\* find_workspace_binary_with_target_dir, canonicalize, the debug lines and
\* Command::spawn, each left with `?`.
StartSpawn(i) ==
    /\ det.st[i].pc = "spawn"
    /\ \E spawned \in BOOLEAN :
          det' = IF spawned
                 THEN [det EXCEPT !.st[i].pc = "poll",
                                  !.st[i].probes = MaxProbes,
                                  !.proc[i] = "starting"]
                 ELSE [det EXCEPT !.st[i].pc = "err",
                                  !.st[i].error = "Failed to start app"]
    /\ UNCHANGED <<sse, poll, cli, man, par>>

\* One probe of the readiness poll (30 s), and what follows its timeout:
\* kill_process(pid), remove_file(log_file), return Err.
StartPoll(i) ==
    /\ det.st[i].pc = "poll"
    /\ det' = IF is_port_responsive(det, det.st[i].port)
              THEN [det EXCEPT !.st[i].pc = "write", !.st[i].probes = 0]
              ELSE IF det.st[i].probes > 0
              THEN [det EXCEPT !.st[i].probes = @ - 1]
              ELSE [det EXCEPT !.st[i].pc = "err",
                               !.st[i].error = start_timeout_error,
                               !.proc = kill_process(@, i),
                               !.logs = @ \ {det.st[i].log}]
    /\ UNCHANGED <<sse, poll, cli, man, par>>

\* fs::write(&session_info_path, ..): the file is created or truncated.
StartWriteOpen(i) ==
    /\ det.st[i].pc = "write"
    /\ \E opened \in BOOLEAN :
          det' = IF opened
                 THEN [det EXCEPT !.st[i].pc = "writing",
                                  !.desc[det.st[i].port] = Partial]
                 ELSE [det EXCEPT !.st[i].pc = "err",
                                  !.st[i].error = "Failed to save session info",
                                  !.proc = drop_child_handle(@, i)]
    /\ UNCHANGED <<sse, poll, cli, man, par>>

\* fs::write puts the JSON into the file, and start_detached returns
\* Ok(DetachedSession); a failed write returns the error.
StartWritten(i) ==
    /\ det.st[i].pc = "writing"
    /\ \E written \in BOOLEAN :
          det' = IF written
                 THEN [det EXCEPT
                         !.st[i].pc = "ok",
                         !.desc[det.st[i].port] = session_info(i, det.st[i]),
                         !.proc = drop_child_handle(@, i)]
                 ELSE [det EXCEPT !.st[i].pc = "err",
                                  !.st[i].error = "Failed to save session info",
                                  !.proc = drop_child_handle(@, i)]
    /\ UNCHANGED <<sse, poll, cli, man, par>>

\* The child binds its port and answers; it cannot while another process
\* holds the port.
DetChildUp(i) ==
    /\ det.proc[i] = "starting"
    /\ ~is_port_responsive(det, det.st[i].port)
    /\ det' = [det EXCEPT !.proc[i] = "up"]
    /\ UNCHANGED <<sse, poll, cli, man, par>>

\* A child exits or is killed from outside.
DetChildExit(i) ==
    /\ det.proc[i] \in {"starting", "up"}
    /\ det' = [det EXCEPT !.proc[i] = "none"]
    /\ UNCHANGED <<sse, poll, cli, man, par>>

\* A removal that fails.
remove_file_fails(d, f) == d

\* fs::remove_file
remove_file(d, f) ==
    IF f[1] = "json" THEN [d EXCEPT !.desc[f[2]] = NoFile]
    ELSE [d EXCEPT !.logs = @ \ {f[2]}]

\* get_session_info up to the parsed descriptor: exists(), and without a
\* file the probe of the port; File::open, read_to_string and from_str.
InfoRead(port) ==
    /\ det.info.pc = "idle"
    /\ Running(det) < det.limit
    /\ LET d == Disturbed(det)
           read == det.desc[port]
           up0 == read.kind = "session" /\ read.pid \in Starters
                     /\ det.proc[read.pid] = "up"
       IN  det' =
             IF read = NoFile
             THEN [d EXCEPT !.info.pc = "done", !.info.port = port,
                            !.info.answering = up0,
                            !.info.app_running = is_port_responsive(det, port),
                            !.info.result =
                               IF is_port_responsive(det, port)
                               THEN "manual" ELSE "none"]
             ELSE IF read = Partial
             THEN [d EXCEPT !.info.pc = "done", !.info.port = port,
                            !.info.answering = up0, !.info.result = "error"]
             ELSE [d EXCEPT !.info.pc = "probe", !.info.port = port,
                            !.info.answering = up0, !.info.read = read]
    /\ UNCHANGED <<sse, poll, cli, man, par>>

\* detect_running_instances(port).contains(&port)
InfoProbe ==
    /\ det.info.pc = "probe"
    /\ det' = [det EXCEPT
                 !.info.pc = "alive",
                 !.info.app_running = is_port_responsive(det, det.info.port)]
    /\ UNCHANGED <<sse, poll, cli, man, par>>

\* is_process_alive(session_info.pid), the removal of a stale descriptor,
\* and the return of the report.
InfoReturn ==
    /\ det.info.pc = "alive"
    /\ LET alive == is_process_alive(det, det.info.read.pid)
           d == IF ~det.info.app_running /\ ~alive
                THEN remove_file(det, DescFile(det.info.port))
                ELSE det
       IN  det' = [d EXCEPT !.info.pc = "done",
                            !.info.process_alive = alive,
                            !.info.result = "session"]
    /\ UNCHANGED <<sse, poll, cli, man, par>>

\* The session-prefixed files read_dir finds in the temp directory.
SessionFiles(d) ==
    {DescFile(p) : p \in {q \in UserPorts : d.desc[q] # NoFile}}
       \cup {LogFile(t) : t \in d.logs}

\* The files a descriptor marks as active: its own path and its log file,
\* when its pid is alive.
active_files(d, f) ==
    LET info == d.desc[f[2]]
    IN  IF info.kind = "session" /\ is_process_alive(d, info.pid)
        THEN {f, LogFile(info.log)}
        ELSE {}

\* cleanup_all_logs opens the temp directory for its first pass.
CleanBegin ==
    /\ det.clean.pc = "idle"
    /\ Running(det) < det.limit
    /\ det' = [Disturbed(det) EXCEPT
                 !.clean.pc = "pass1",
                 !.clean.todo = {f \in SessionFiles(det) : f[1] = "json"},
                 !.clean.sessions =
                    IF InFlight(det) THEN {}
                    ELSE {i \in Starters :
                            /\ det.st[i].pc = "ok"
                            /\ is_process_alive(det, i)
                            /\ det.st[i].log \in det.logs
                            /\ det.desc[det.st[i].port].kind = "session"},
                 !.clean.dead =
                    IF InFlight(det) THEN {}
                    ELSE {i \in Starters :
                            /\ det.st[i].pc = "ok"
                            /\ det.proc[i] = "none"
                            /\ det.st[i].log \in det.logs
                            /\ det.desc[det.st[i].port] = session_info(i, det.st[i])}]
    /\ UNCHANGED <<sse, poll, cli, man, par>>

\* First pass, one descriptor: read_to_string, from_str, is_process_alive.
CleanScan ==
    /\ det.clean.pc = "pass1"
    /\ \E f \in det.clean.todo :
          det' = [det EXCEPT !.clean.todo = @ \ {f},
                             !.clean.active = @ \cup active_files(det, f)]
    /\ UNCHANGED <<sse, poll, cli, man, par>>

\* The second read_dir.
CleanSecondPass ==
    /\ det.clean.pc = "pass1"
    /\ det.clean.todo = {}
    /\ det' = [det EXCEPT !.clean.pc = "pass2",
                          !.clean.todo = SessionFiles(det)]
    /\ UNCHANGED <<sse, poll, cli, man, par>>

\* Second pass, one file: preserved when marked active, removed otherwise;
\* a removal is counted as cleaned when remove_file succeeds, and as an
\* error when the file is gone already.
CleanFile ==
    /\ det.clean.pc = "pass2"
    /\ \E f \in det.clean.todo :
          det' = IF f \in det.clean.active
                 THEN [det EXCEPT !.clean.todo = @ \ {f}]
                 ELSE [remove_file(det, f) EXCEPT
                         !.clean.todo = @ \ {f},
                         !.clean.cleaned =
                            @ \cup ({f} \cap SessionFiles(det))]
    /\ UNCHANGED <<sse, poll, cli, man, par>>

\* cleanup_all_logs prints its counts and returns Ok.
CleanReturn ==
    /\ det.clean.pc = "pass2"
    /\ det.clean.todo = {}
    /\ det' = [det EXCEPT !.clean.pc = "done", !.clean.active = {}]
    /\ UNCHANGED <<sse, poll, cli, man, par>>

NextDetached ==
    \/ \E i \in Starters : StartLog(i)
    \/ \E i \in Starters : StartSpawn(i)
    \/ \E i \in Starters : StartPoll(i)
    \/ \E i \in Starters : StartWriteOpen(i)
    \/ \E i \in Starters : StartWritten(i)
    \/ \E i \in Starters : DetChildUp(i)
    \/ \E i \in Starters : DetChildExit(i)
    \/ \E port \in UserPorts : InfoRead(port)
    \/ InfoProbe
    \/ InfoReturn
    \/ CleanBegin
    \/ CleanScan
    \/ CleanSecondPass
    \/ CleanFile
    \/ CleanReturn

SpecDetached == InitDetached /\ [][NextDetached]_vars

SpecDetachedRace == InitDetachedRace /\ [][NextDetached]_vars

(***************************************************************************)
(* Command texts, cli/commands/parsing.rs.                                 *)
(*                                                                         *)
(* A text is a sequence of atoms.  A character of a field is an atom of    *)
(* its own; a keyword or a flag the formatter writes is one atom that      *)
(* stands for its characters, none of which is whitespace.                 *)
(***************************************************************************)
MaxStr == 3
MaxVec == 1
MaxList == 5

Space == " "
\* The values of a String field, up to n characters long.
RECURSIVE Strings(_)
Strings(n) ==
    IF n = 0 THEN { <<>> }
    ELSE LET shorter == Strings(n - 1)
         IN shorter \cup { t \o <<c>> : t \in shorter, c \in {"a", Space, "-"} }

\* The values of a Vec<String> field, up to n elements long.
RECURSIVE Vecs(_)
Vecs(n) ==
    IF n = 0 THEN { <<>> }
    ELSE LET shorter == Vecs(n - 1)
         IN shorter \cup
               { v \o <<t>> :
                   v \in shorter,
                   t \in { <<>>, <<"a">>, <<"-", "-">>, <<"a", Space, "a">> } }

Entities == {0, 12}

None == [some |-> FALSE, v |-> <<>>]
Some(v) == [some |-> TRUE, v |-> v]
\* The Commands values whose fields are numbers and strings.
TextCommands ==
    LET S == Strings(MaxStr)
    IN [variant : {"List", "ListResources", "ListEntities", "Methods",
                   "Ready", "Shutdown"}]
       \cup [variant : {"Destroy", "ListEntity", "ListWatch"},
             entity : Entities]
       \cup [variant : {"Get", "Remove"}, entity : Entities, component : S]
       \cup [variant : {"GetResource", "RemoveResource"}, resource : S]
       \cup [variant : {"Insert"}, entity : Entities, components : S]
       \cup [variant : {"InsertResource"}, data : S]
       \cup [variant : {"MutateComponent"}, entity : Entities,
             component : S, patch : S]
       \cup [variant : {"MutateResource"}, resource : S, patch : S]
       \cup [variant : {"Reparent"}, child : Entities, parent : S]
       \cup [variant : {"Screenshot"}, path : S]
       \cup [variant : {"Spawn"}, components : S]

\* The Commands values with a vector among their fields.
VecCommands ==
    LET V == Vecs(MaxVec)
        Options == {None} \cup { Some(v) : v \in V }
    IN [variant : {"GetWatch"}, entity : Entities, components : V]
       \cup [variant : {"Query"}, components : V]
       \cup [variant : {"Schema"}, with_crates : Options,
             without_crates : Options, with_types : Options,
             without_types : Options]
       \cup [variant : {"Raw"}, args : V]

DecimalDigits == <<"0", "1", "2", "3", "4", "5", "6", "7", "8", "9">>

\* Display of a u64: its decimal digits.
RECURSIVE u64_to_string(_)
u64_to_string(n) ==
    IF n < 10 THEN << DecimalDigits[n + 1] >>
    ELSE u64_to_string(n \div 10) \o << DecimalDigits[(n % 10) + 1] >>

\* str::parse::<u64> on the digits read so far.
RECURSIVE u64_from_digits(_, _)
u64_from_digits(token, so_far) ==
    IF token = <<>> THEN so_far
    ELSE u64_from_digits(
             Tail(token),
             10 * so_far + (CHOOSE d \in 0..9 : DecimalDigits[d + 1] = Head(token)))

\* slice::join(" ")
RECURSIVE join(_)
join(list) ==
    IF list = <<>> THEN <<>>
    ELSE IF Len(list) = 1 THEN list[1]
    ELSE list[1] \o <<Space>> \o join(Tail(list))

\* The text of one flag of schema with its values.
flag_part(flag, option) ==
    IF option.some THEN << <<flag, Space>> \o join(option.v) >> ELSE <<>>

\* <Commands as Display>::fmt
format_command(cmd) ==
    LET v == cmd.variant
        entity(keyword) == <<keyword, Space>> \o u64_to_string(cmd.entity)
    IN CASE v = "Destroy" -> entity("destroy")
         [] v = "Get" -> entity("get") \o <<Space>> \o cmd.component
         [] v = "GetResource" -> <<"get_resource", Space>> \o cmd.resource
         [] v = "GetWatch" ->
               entity("get+watch") \o <<Space>> \o join(cmd.components)
         [] v = "Insert" -> entity("insert") \o <<Space>> \o cmd.components
         [] v = "InsertResource" -> <<"insert_resource", Space>> \o cmd.data
         [] v = "List" -> <<"list">>
         [] v = "ListResources" -> <<"list_resources">>
         [] v = "ListEntities" -> <<"list_entities">>
         [] v = "ListEntity" -> entity("list_entity")
         [] v = "ListWatch" -> entity("list+watch")
         [] v = "Methods" -> <<"methods">>
         [] v = "MutateComponent" ->
               entity("mutate_component") \o <<Space>> \o cmd.component
                   \o <<Space>> \o cmd.patch
         [] v = "MutateResource" ->
               <<"mutate_resource", Space>> \o cmd.resource
                   \o <<Space>> \o cmd.patch
         [] v = "Query" -> <<"query", Space>> \o join(cmd.components)
         [] v = "Ready" -> <<"ready">>
         [] v = "Remove" -> entity("remove") \o <<Space>> \o cmd.component
         [] v = "RemoveResource" ->
               <<"remove_resource", Space>> \o cmd.resource
         [] v = "Reparent" ->
               <<"reparent", Space>> \o u64_to_string(cmd.child)
                   \o <<Space>> \o cmd.parent
         [] v = "Screenshot" -> <<"screenshot", Space>> \o cmd.path
         [] v = "Shutdown" -> <<"shutdown">>
         [] v = "Spawn" -> <<"spawn", Space>> \o cmd.components
         [] v = "Schema" ->
               join(<< <<"schema">> >>
                    \o flag_part("--with-crates", cmd.with_crates)
                    \o flag_part("--without-crates", cmd.without_crates)
                    \o flag_part("--with-types", cmd.with_types)
                    \o flag_part("--without-types", cmd.without_types))
         [] OTHER -> join(cmd.args)

\* str::split_whitespace
RECURSIVE split_whitespace(_)
split_whitespace(text) ==
    IF text = <<>> THEN <<>>
    ELSE IF Head(text) = Space THEN split_whitespace(Tail(text))
    ELSE LET spaces == { i \in 1..Len(text) : text[i] = Space }
             word_end == IF spaces = {} THEN Len(text)
                         ELSE (CHOOSE i \in spaces :
                                  \A j \in spaces : i <= j) - 1
         IN << Take(text, word_end) >> \o split_whitespace(Drop(text, word_end))

\* parse_entity_arg(args): args[0].parse()
parse_entity_arg(args) ==
    IF \A i \in 1..Len(args[1]) :
          \E d \in 1..10 : DecimalDigits[d] = args[1][i]
    THEN Ok(u64_from_digits(args[1], 0))
    ELSE Err(<<"invalid digit found in string">>)

Flags ==
    {"--with-crates", "--without-crates", "--with-types", "--without-types"}

\* args[from..].iter().take_while(|arg| !arg.starts_with("--"))
RECURSIVE take_values(_, _)
take_values(args, from) ==
    LET starts_with_dashes(arg) ==
            \/ arg[1] \in Flags
            \/ Len(arg) >= 2 /\ arg[1] = "-" /\ arg[2] = "-"
    IN IF from > Len(args) \/ starts_with_dashes(args[from]) THEN <<>>
       ELSE <<args[from]>> \o take_values(args, from + 1)

\* The loop of from_str over the arguments of schema, from argument i on.
RECURSIVE schema_flags(_, _, _)
schema_flags(args, i, found) ==
    IF i > Len(args) THEN found
    ELSE IF args[i] \in { <<flag>> : flag \in Flags }
    THEN LET values == take_values(args, i + 1)
         IN IF values # <<>>
            THEN schema_flags(args, i + Len(values) + 1,
                              [found EXCEPT ![args[i][1]] = Some(values)])
            ELSE schema_flags(args, i + 1, found)
    ELSE schema_flags(args, i + 1, found)

\* <Commands as FromStr>::from_str
parse_command_string(command) ==
    LET parts == split_whitespace(command)
        args == Tail(parts)
        name == parts[1]
        e == parse_entity_arg(args)
        is(keyword, required) == name = <<keyword>> /\ Len(args) >= required
    IN IF parts = <<>> THEN Err(<<"Empty command">>)
       ELSE
       CASE is("destroy", 1) ->
              IF e.ok THEN Ok([variant |-> "Destroy", entity |-> e.value])
              ELSE e
         [] is("get", 2) ->
              IF e.ok THEN Ok([variant |-> "Get", entity |-> e.value,
                               component |-> args[2]])
              ELSE e
         [] is("get_resource", 1) ->
              Ok([variant |-> "GetResource", resource |-> join(args)])
         [] is("get+watch", 2) ->
              IF e.ok THEN Ok([variant |-> "GetWatch", entity |-> e.value,
                               components |-> Tail(args)])
              ELSE e
         [] is("insert", 2) ->
              IF e.ok THEN Ok([variant |-> "Insert", entity |-> e.value,
                               components |-> join(Tail(args))])
              ELSE e
         [] is("insert_resource", 1) ->
              Ok([variant |-> "InsertResource", data |-> join(args)])
         [] is("list", 0) -> Ok([variant |-> "List"])
         [] is("list_resources", 0) -> Ok([variant |-> "ListResources"])
         [] is("list_entities", 0) -> Ok([variant |-> "ListEntities"])
         [] is("list_entity", 1) ->
              IF e.ok THEN Ok([variant |-> "ListEntity", entity |-> e.value])
              ELSE e
         [] is("list+watch", 1) ->
              IF e.ok THEN Ok([variant |-> "ListWatch", entity |-> e.value])
              ELSE e
         [] is("methods", 0) -> Ok([variant |-> "Methods"])
         [] is("mutate_component", 3) ->
              IF e.ok THEN Ok([variant |-> "MutateComponent",
                               entity |-> e.value, component |-> args[2],
                               patch |-> join(Tail(Tail(args)))])
              ELSE e
         [] is("mutate_resource", 2) ->
              Ok([variant |-> "MutateResource", resource |-> args[1],
                  patch |-> join(Tail(args))])
         [] is("query", 1) -> Ok([variant |-> "Query", components |-> args])
         [] is("ready", 0) -> Ok([variant |-> "Ready"])
         [] is("remove", 2) ->
              IF e.ok THEN Ok([variant |-> "Remove", entity |-> e.value,
                               component |-> args[2]])
              ELSE e
         [] is("remove_resource", 1) ->
              Ok([variant |-> "RemoveResource", resource |-> join(args)])
         [] is("reparent", 2) ->
              IF e.ok THEN Ok([variant |-> "Reparent", child |-> e.value,
                               parent |-> args[2]])
              ELSE e
         [] is("screenshot", 1) ->
              Ok([variant |-> "Screenshot", path |-> join(args)])
         [] is("shutdown", 0) -> Ok([variant |-> "Shutdown"])
         [] is("spawn", 1) ->
              Ok([variant |-> "Spawn", components |-> join(args)])
         [] is("schema", 0) ->
              LET found == schema_flags(args, 1, [flag \in Flags |-> None])
              IN Ok([variant |-> "Schema",
                     with_crates |-> found["--with-crates"],
                     without_crates |-> found["--without-crates"],
                     with_types |-> found["--with-types"],
                     without_types |-> found["--without-types"]])
         [] is("raw", 1) -> Ok([variant |-> "Raw", args |-> args])
         [] name \in { <<keyword>> : keyword \in
                         {"destroy", "get", "get_resource", "get+watch",
                          "insert", "insert_resource", "list_entity",
                          "list+watch", "mutate_component", "mutate_resource",
                          "query", "remove", "remove_resource", "reparent",
                          "screenshot", "spawn", "raw"} } ->
              Err(<<name[1], " requires arguments">>)
         [] OTHER -> Err(<<"Unknown command">>)

\* A command as clap built it from the command line.
InitParse ==
    /\ \/ \E cmd \in TextCommands :
             par = [pc |-> "cmd", cmd |-> cmd, text |-> <<>>, parsed |-> Err(<<>>)]
       \/ \E cmd \in VecCommands :
             par = [pc |-> "cmd", cmd |-> cmd, text |-> <<>>, parsed |-> Err(<<>>)]
    /\ sse = Off /\ poll = Off /\ cli = Off /\ man = Off /\ det = Off

\* format_command(cmd)
FormatCommand ==
    /\ par.pc = "cmd"
    /\ par' = [par EXCEPT !.pc = "text", !.text = format_command(par.cmd)]
    /\ UNCHANGED <<sse, poll, cli, man, det>>

\* parse_command_string(command)
ParseCommandString ==
    /\ par.pc = "text"
    /\ par' = [par EXCEPT !.pc = "parsed",
                          !.parsed = parse_command_string(par.text)]
    /\ UNCHANGED <<sse, poll, cli, man, det>>

NextParse == FormatCommand \/ ParseCommandString

SpecParse == InitParse /\ [][NextParse]_vars

\* run_command_list hands the text of --commands to parse_command_list,
\* which starts with no command, an empty current command, depth 0 and its
\* three flags false.
InitList ==
    /\ \E input \in UNION {[1..n -> {",", "{", "}", "\"", "\\", "a", " "}] :
                              n \in 0..MaxList} :
           par = [pc |-> "scan", input |-> input, pos |-> 0,
                  commands |-> <<>>, current_command |-> <<>>,
                  in_json |-> FALSE, brace_count |-> 0,
                  in_string |-> FALSE, escape_next |-> FALSE]
    /\ sse = Off /\ poll = Off /\ cli = Off /\ man = Off /\ det = Off

\* A match arm that counts an opening brace inside a string too.
opens_brace_in_strings(p, ch) == ch = "{"

\* The arm '{' if !in_string
opens_brace(p, ch) == ch = "{" /\ ~p.in_string

\* parse_command_list: one turn of its loop over input.chars(), and after
\* the last character the push of the last command and the return.
parse_command_list ==
    /\ par.pc = "scan"
    /\ LET push(p) ==
               LET trimmed == trim_end(trim_start(p.current_command))
               IN IF trimmed # <<>> THEN Append(p.commands, trimmed)
                  ELSE p.commands
           ch == par.input[par.pos + 1]
           next == [par EXCEPT !.pos = @ + 1]
           pushed == [next EXCEPT !.current_command = Append(@, ch)]
       IN par' =
            IF par.pos = Len(par.input)
            THEN [par EXCEPT !.pc = "returned", !.commands = push(par)]
            ELSE IF par.escape_next
            THEN [pushed EXCEPT !.escape_next = FALSE]
            ELSE CASE ch = "\\" /\ par.in_json ->
                        [pushed EXCEPT !.escape_next = TRUE]
                   [] ch = "\"" /\ par.in_json ->
                        [pushed EXCEPT !.in_string = ~@]
                   [] opens_brace(par, ch) ->
                        [pushed EXCEPT !.in_json = TRUE, !.brace_count = @ + 1]
                   [] ch = "}" /\ ~par.in_string /\ par.in_json ->
                        [pushed EXCEPT !.brace_count = @ - 1,
                                       !.in_json = par.brace_count - 1 # 0]
                   [] ch = "," /\ ~par.in_json ->
                        [next EXCEPT !.commands = push(par),
                                     !.current_command = <<>>]
                   [] OTHER -> pushed
    /\ UNCHANGED <<sse, poll, cli, man, det>>

SpecList == InitList /\ [][parse_command_list]_vars

\* C1: however the input is split into chunks, the decoder yields the same
\* sequence of elements as for the whole input delivered as one chunk.
C1_ChunkIndependence ==
    (sse.pc = "ended" /\ ~sse.failed) => sse.out = collect(<<>>, <<sse.input>>)

\* C2: once run_managed has returned, on whatever path, the child it
\* spawned is not running any more.
C2_ChildNeverOutlives ==
    man.pc = "returned" => man.child \in {"none", "exited", "killed"}

\* C2 witness: an early return (the port never became connectable) after
\* the spawn, with the child killed by the drop of its handle.
C2_Witness ==
    /\ man.pc = "returned" /\ man.child = "killed"
    /\ man.result \notin {"Ok", "Err: kill failed"}
    /\ man.stdout_task # "none"

C12_PortChoice ==
    /\ [][man.pc = "pick" /\ man'.pc = "spawn" =>
            /\ man'.port \in MIN_PORT..MAX_PORT
            /\ man'.port # DEFAULT_REMOTE_PORT
            /\ man.sock[man'.port] = "free"]_vars
    /\ [][man.pc = "pick" /\ man'.pc = "returned" =>
            /\ man'.attempts = MAX_ATTEMPTS
            /\ man'.result = no_port_error]_vars
    /\ [](man.pc = "pick" => man.attempts < MAX_ATTEMPTS)
    /\ [](man.result = no_port_error => man.child = "none")
    /\ [](man.child # "none" =>
            IF man.requested = DEFAULT_REMOTE_PORT
            THEN man.picked /\ man.port \in MIN_PORT..MAX_PORT
            ELSE ~man.picked /\ man.port = man.requested)

C12_Witness ==
    /\ man.requested = DEFAULT_REMOTE_PORT /\ man.picked
    /\ man.child = "running" /\ man.port \in RandomPorts
    /\ \E p \in RandomPorts : p # man.port /\ man.sock[p] = "other"

\* C14: the commands of a batch are started in listed order, each after
\* the one before it has completed; a failed command is the last one
\* started, run_managed returns its error, and what the earlier commands did
\* stays done: the record of the batch only ever grows at its end.
C14_BatchInOrder ==
    /\ [](man.pc # "off" =>
            \A j \in 1..Len(man.trace) :
               /\ man.trace[j][2] = (j + 1) \div 2
               /\ man.trace[j][2] <= man.commands
               /\ man.trace[j][1] =
                     IF j % 2 = 1 THEN "start"
                     ELSE IF j = Len(man.trace) /\ man.result = command_error
                     THEN "failed" ELSE "done")
    /\ [](man.pc # "off" /\ man.result = command_error =>
            /\ man.pc = "returned"
            /\ Len(man.trace) % 2 = 0 /\ Len(man.trace) > 0)
    /\ [][man.pc # "off" =>
            /\ Len(man'.trace) >= Len(man.trace)
            /\ \A j \in 1..Len(man.trace) : man'.trace[j] = man.trace[j]]_vars

C14_Witness ==
    /\ man.pc = "returned" /\ man.result = command_error
    /\ man.trace = <<<<"start", 1>>, <<"done", 1>>, <<"start", 2>>, <<"failed", 2>>>>
    /\ man.commands > 2

\* C16: once run_managed has returned after it started the two forwarding
\* tasks, neither task is still running: each was aborted, or had ended
\* by itself.
C16_TasksCancelled ==
    man.pc = "returned" /\ man.stdout_task # "none" =>
       /\ man.stdout_task \in {"aborted", "finished"}
       /\ man.stderr_task \in {"aborted", "finished"}

\* C19: wait_for_port_connectable returns Ok only after a connect to the
\* port succeeded; when it fails it returns, never the timeout message of
\* its poll, but the "may have failed to start" error when the port can be
\* bound at that moment and the "already in use" error when it cannot.
C19_WaitOutcome ==
    /\ [][man.pc = "wait_port" /\ man'.pc = "commands" =>
            man.sock[man.port] \in {"child", "other"}]_vars
    /\ [][man.pc = "wait_port" /\ man'.pc = "returned" =>
            /\ man.sock[man.port] \notin {"child", "other"}
            /\ man'.result # poll_timeout_message
            /\ man'.result = IF man.sock[man.port] = "free"
                             THEN app_failed_error
                             ELSE port_in_use_error]_vars

C19_Witness ==
    /\ man.pc = "returned" /\ man.result = port_in_use_error
    /\ man.net = "bound" /\ man.child = "killed"

\* C3: when cleanup_all_logs returns, every detached session that was
\* started before the cleanup began and had its log file and a complete
\* descriptor file for its port then, and whose child is alive from the beginning of the
\* cleanup to its return, still has both files.  Only cleanups that no other
\* invocation of the tool overlaps are considered.
C3_LiveSessionFilesKept ==
    det.clean.pc = "done" =>
       \A i \in det.clean.sessions :
          is_process_alive(det, i) =>
             /\ det.st[i].log \in det.logs
             /\ det.desc[det.st[i].port] # NoFile

\* C10: at the step in which start_detached returns Ok for port P, the
\* descriptor file of P records port P and the pid of the child this
\* invocation spawned; and a get_session_info that read a descriptor whose
\* child was answering when the query began and still is when it returns
\* reports process_alive = true and app_running = true.
C10_DescriptorAndReport ==
    /\ [][\A i \in Starters :
            det.st[i].pc = "writing" /\ det'.st[i].pc = "ok" =>
               /\ det'.desc[det.st[i].port].kind = "session"
               /\ det'.desc[det.st[i].port].port = det.st[i].port
               /\ det'.desc[det.st[i].port].pid = i]_vars
    /\ [](det.info.pc = "done" /\ det.info.result = "session"
             /\ det.info.answering /\ det.proc[det.info.read.pid] = "up"
          => det.info.process_alive /\ det.info.app_running)

C10_Witness ==
    \E i \in Starters :
       /\ det.st[i].pc = "ok"
       /\ det.info.pc = "done" /\ det.info.result = "session"
       /\ det.info.port = det.st[i].port
       /\ det.info.read = SessionInfo(i, det.st[i].port, det.st[i].log)
       /\ det.desc[det.st[i].port] = det.info.read
       /\ det.info.answering /\ det.proc[i] = "up"
       /\ det.info.process_alive /\ det.info.app_running

\* C11: when cleanup_all_logs returns, every detached session whose child
\* had died before the cleanup began, and whose descriptor and log file
\* were in the temp directory then, has lost both files, and both were
\* counted among the inactive files removed.
C11_DeadSessionRemoved ==
    det.clean.pc = "done" =>
       \A i \in det.clean.dead :
          /\ det.desc[det.st[i].port] = NoFile
          /\ det.st[i].log \notin det.logs
          /\ {DescFile(det.st[i].port), LogFile(det.st[i].log)}
                \subseteq det.clean.cleaned

C11_Witness ==
    /\ det.clean.pc = "done"
    /\ \E i \in det.clean.dead :
          /\ det.proc[i] = "none"
          /\ DescFile(det.st[i].port) \in det.clean.cleaned
          /\ LogFile(det.st[i].log) \in det.clean.cleaned
          /\ Cardinality(det.clean.cleaned) = 2

\* C17: in the step in which the readiness poll of start_detached times
\* out, the child of this invocation is killed (or was gone already), the
\* log file of this invocation is deleted, no descriptor file is written or
\* changed, and the timeout error is returned.
C17_TimeoutCleansUp ==
    [][\A i \in Starters :
          det.st[i].pc = "poll" /\ det'.st[i].pc = "err" =>
             /\ det'.proc[i] = "none"
             /\ det.st[i].log \notin det'.logs
             /\ det'.desc = det.desc
             /\ det'.st[i].error = start_timeout_error]_vars

C17_Witness ==
    \E i \in Starters :
       /\ det.st[i].pc = "err" /\ det.st[i].error = start_timeout_error
       /\ det.proc[i] = "none" /\ det.st[i].log \notin det.logs
       /\ det.desc[det.st[i].port] = NoFile

\* C18: once start_detached has failed after it created its log file, the
\* log file is deleted, its child is not running, and the descriptor file
\* of its port is neither a descriptor of this invocation nor the beginning
\* of one.
C18_FailureCleansUp ==
    \A i \in Starters :
       det.st[i].pc = "err" /\ det.st[i].error # "detect_bevy_app failed" =>
          /\ det.st[i].log \notin det.logs
          /\ ~is_process_alive(det, i)
          /\ det.desc[det.st[i].port] \notin {Partial, session_info(i, det.st[i])}

\* C15: when the protocol call of is_ready, detect_running_instances or
\* wait_for_app_ready ended without a connection (the send failed), the
\* caller returns an error, and it is the connection error of the call.
C15_ConnectionErrorPropagated ==
    cli.pc = "done" /\ cli.reply = SendFailed =>
       /\ ~cli.returned.ok
       /\ cli.returned.err = cli.outcome.err

\* C20: stream_request hands out a stream, and the stream delivers
\* elements, only for a status from 200 to 299; for any other status of a
\* response it has failed with an error made of the status and the body
\* (or "Unknown error" for a body that could not be read), and nothing of
\* the body was decoded or delivered.
C20_StreamOnlyOnSuccess ==
    /\ sse.pc \in {"open", "ended"} => sse.status \in 200..299
    /\ sse.status \notin 200..299 => sse.out = <<>> /\ sse.buffer = <<>>
    /\ (sse.status # 0 /\ sse.status \notin 200..299) =>
          /\ sse.pc = "err"
          /\ sse.rest = sse.input
          /\ \/ sse.error = http_error(sse.status, sse.input)
             \/ sse.error = http_error(sse.status, UnknownError)

C20_Witness ==
    /\ sse.pc = "err" /\ sse.status = 300
    /\ sse.error = http_error(300, sse.input)
    /\ Len(sse.input) > 1 /\ sse.out = <<>>

\* C13: for every command other than Raw, parsing the text that formatting
\* it produced succeeds and gives back the same command.
C13_RoundTrip ==
    par.pc = "parsed" /\ par.cmd.variant # "Raw" =>
       par.parsed.ok /\ par.parsed.value = par.cmd

\* C30: is_ready returns Ok(true) when its call succeeded, the error of the
\* call when the exchange failed to connect or the text of the error holds
\* "Connection refused", and Ok(false) for every other failure.
C30_ReadyClassification ==
    cli.pc = "done" /\ cli.caller = "is_ready" =>
       LET error == index(cli.reply, "error")
           unreachable ==
               \/ cli.reply = SendFailed
               \/ /\ has(cli.reply, "error") /\ error.kind = "obj"
                  /\ error_message(error) = "Connection refused"
       IN IF cli.outcome.ok THEN cli.returned.ok /\ cli.returned.ready
          ELSE IF unreachable
               THEN ~cli.returned.ok /\ cli.returned.err = cli.outcome.err
               ELSE cli.returned.ok /\ ~cli.returned.ready

\* C30 witness: a reply with an error object, whose rendered text holds
\* "Connection refused", has been returned as the error of the call.
C30_Witness ==
    /\ cli.pc = "done" /\ cli.caller = "is_ready"
    /\ has(cli.reply, "error") /\ ~cli.returned.ok
    /\ cli.returned.err[1] = "Remote error ["

\* C22: when every chunk was valid UTF-8 and the transport did not fail,
\* the elements the decoder has yielded at its end are, in order, one for
\* each complete line of the input that begins with "data: ", and none for
\* any other line.
C22_OneElementPerDataLine ==
    (/\ sse.pc = "ended" /\ ~sse.failed
     /\ \A k \in 1..Len(sse.out) : sse.out[k] # ErrEvent("Invalid UTF-8")) =>
       sse.out = parse_sse_events(sse.input).events

\* C23: when every chunk was valid UTF-8 and the transport did not fail, a
\* data line that is not JSON costs only its own element: the payloads the
\* decoder has yielded at its end are those of all the well-formed data
\* lines of the input, in order.
C23_ErrorScopedToElement ==
    (/\ sse.pc = "ended" /\ ~sse.failed
     /\ \A k \in 1..Len(sse.out) : sse.out[k] # ErrEvent("Invalid UTF-8")
     /\ \E k \in 1..Len(sse.out) : ~sse.out[k].ok) =>
       LET ok(e) == e.ok
       IN SelectSeq(sse.out, ok)
             = SelectSeq(parse_sse_events(sse.input).events, ok)

\* C24: the poll that finds the upstream stream ended finds no complete
\* line in the buffer, yields nothing and ends the sequence, whatever
\* unterminated text the buffer holds.
C24_EndsAtUpstreamEnd ==
    [][sse.pc = "open" /\ sse.rest = <<>> =>
          /\ find_newline(sse.buffer, 1) = 0
          /\ sse'.pc = "ended"
          /\ sse'.out = sse.out]_vars

\* C24 witness: the sequence has ended with unterminated text left in the
\* buffer, after an element was yielded.
C24_Witness ==
    /\ sse.pc = "ended" /\ ~sse.failed
    /\ sse.buffer # <<>> /\ sse.out # <<>>

C29_ChildIndependent ==
    [][\A i \in Starters :
          /\ (det.st[i].pc = "writing" /\ det'.st[i].pc = "ok") =>
                det'.proc = det.proc
          /\ (det.st[i].pc = "ok" /\ det.proc[i] # "none"
                /\ det'.proc[i] = "none") =>
                det' = [det EXCEPT !.proc[i] = "none"]]_vars

\* C29 witness: start_detached has returned Ok, other invocations of the
\* tool have run to their end since, and the child is still up.
C29_Witness ==
    \E i \in Starters :
       /\ det.st[i].pc = "ok" /\ det.proc[i] = "up"
       /\ det.info.pc = "done" /\ det.clean.pc = "done"

\* C25: whenever the second pass of cleanup_all_logs removes a file while
\* invocations of the tool overlap, the file is not the log file of a start
\* whose child is alive, nor the descriptor such a start has written.
C25_CleanupSparesLiveSessions ==
    [][\A f \in SessionFiles(det) \ SessionFiles(det') :
          det.clean.pc = "pass2" /\ det'.clean.todo # det.clean.todo =>
             \A i \in Starters :
                is_process_alive(det, i) =>
                   /\ f # LogFile(det.st[i].log)
                   /\ ~(/\ f = DescFile(det.st[i].port)
                        /\ det.desc[det.st[i].port]
                              = session_info(i, det.st[i]))]_vars

\* C26: a get_session_info or a first pass of cleanup_all_logs that reads
\* the descriptor of a port while a start_detached is writing it never
\* finds the file empty or partly written.
C26_DescriptorWriteAtomic ==
    [][\A p \in UserPorts :
          (/\ \E i \in Starters :
                 det.st[i].pc = "writing" /\ det.st[i].port = p
           /\ \/ det.info.pc = "idle" /\ det'.info.pc # "idle"
                    /\ det'.info.port = p
              \/ det.clean.pc = "pass1"
                    /\ DescFile(p) \in det.clean.todo \ det'.clean.todo) =>
             det.desc[p] # Partial]_vars

\* C21: while the handler is in its loop the interrupt may win the race at
\* any turn; when it does, that turn consumes nothing from the stream and
\* prints nothing, nothing is consumed or printed afterwards, and whenever
\* the handler has returned the stream it was given has been dropped.
C21_InterruptReleasesStream ==
    [][/\ sse.handler = "select" /\ sse'.handler = "interrupted" =>
             /\ sse'.stream = "dropped"
             /\ sse'.rest = sse.rest /\ sse'.buffer = sse.buffer
             /\ sse'.out = sse.out /\ sse'.printed = sse.printed
       /\ sse.handler = "interrupted" => sse' = sse
       /\ sse'.handler # "select" => sse'.stream = "dropped"]_vars

\* The interrupt wins after an element was printed and while the upstream
\* still has bytes to deliver.
C21_Witness ==
    /\ sse.handler = "interrupted" /\ sse.stream = "dropped"
    /\ sse.printed # <<>> /\ sse.rest # <<>>

\* C31: a request posted after another request of the same process carries
\* an identifier different from that request's identifier.
C31_RequestIdsDistinct ==
    [][(cli.pc = "done" /\ cli'.pc = "sent") =>
          index(cli'.request, "id") # index(cli.request, "id")]_vars

\* C32: run_managed leaves its wait for the port for run_command_list only
\* when a connect to the port succeeded, and the first command of the batch
\* is begun only from the loop that follows that wait and the readiness
\* wait; when the wait for the port times out run_managed returns its
\* error with no command begun, and begins none afterwards.
C32_NoCommandBeforePortWait ==
    [][/\ (man.pc = "wait_port" /\ man'.pc # "wait_port") =>
             /\ man.trace = <<>> /\ man'.trace = <<>>
             /\ IF man.sock[man.port] \in {"child", "other"}
                THEN man'.pc = "commands"
                ELSE /\ man'.pc = "returned"
                     /\ man'.result \in {app_failed_error, port_in_use_error}
       /\ (man'.pc = "commands" /\ man.pc # "commands") => man.pc = "wait_port"
       /\ (man'.pc = "app_ready" /\ man.pc # "app_ready") => man.pc = "commands"
       /\ (man'.pc = "exec" /\ man.pc \notin {"exec", "executing"}) =>
             man.pc = "app_ready"
       /\ (man'.trace # man.trace) => man.pc \in {"exec", "executing"}]_vars

\* The wait for the port of a run with a batch of commands timed out.
C32_Witness ==
    /\ man.pc = "returned" /\ man.commands > 0 /\ man.trace = <<>>
    /\ man.result \in {app_failed_error, port_in_use_error}

\* C34: when the readiness wait of run_command_list succeeds, the process
\* that answers on the chosen port is the child this run_managed spawned.
C34_BatchGoesToOwnChild ==
    [][(man.pc = "app_ready" /\ man'.pc = "exec") =>
          man.sock[man.port] = "child"]_vars

\* C35: when start_detached completes the descriptor of its port with the
\* pid of its child, no other process is the one that answers on that port.
C35_DescriptorNamesListener ==
    [][\A i \in Starters :
          (det.st[i].pc = "writing" /\ det'.st[i].pc = "ok") =>
             /\ det'.desc[det.st[i].port].pid = i
             /\ ~\E j \in Starters \ {i} :
                    det.proc[j] = "up" /\ det.st[j].port = det.st[i].port]_vars

C40_LogFileUnique ==
    \A i, j \in Starters :
       (i # j /\ det.st[i].log # 0 /\ det.st[j].log # 0) =>
          det.st[i].log # det.st[j].log

\* C39: handle_stream_response leaves its loop by the interrupt, by the end
\* of the stream or by the first error element, and in no other way; each
\* time it returns Ok.  An element is printed only when it is a value, the
\* error element is the last element the handler takes from the stream, and
\* after it has returned it consumes and prints nothing.
C39_ThreeEndings ==
    /\ [](/\ sse.handler \in {"select", "interrupted", "ended", "error"}
          /\ (sse.handler = "select") = (sse.result = "")
          /\ \A k \in 1..Len(sse.out) :
                ~sse.out[k].ok => k = Len(sse.out) /\ sse.handler = "error"
          /\ Len(sse.printed) = Len(SelectSeq(sse.out, LAMBDA e : e.ok))
          /\ \A k \in 1..Len(sse.printed) : sse.printed[k] = sse.out[k].json)
    /\ [][/\ sse.handler # "select" => sse' = sse
          /\ (sse.handler = "select" /\ sse'.handler # "select") =>
                /\ sse'.result = "Ok"
                /\ sse'.printed = sse.printed
                /\ CASE sse'.handler = "error" ->
                           /\ Len(sse'.out) = Len(sse.out) + 1
                           /\ ~sse'.out[Len(sse'.out)].ok
                     [] sse'.handler = "ended" ->
                           sse'.pc = "ended" /\ sse'.out = sse.out
                     [] OTHER ->
                           sse'.handler = "interrupted" /\ sse'.out = sse.out]_vars

\* The handler returned at an error element while the upstream still had
\* bytes to deliver.
C39_Witness ==
    /\ sse.handler = "error" /\ sse.result = "Ok"
    /\ sse.rest # <<>> /\ sse.stream = "dropped"

\* C33: execute_standalone_command sends the request of a command other
\* than Ready only from the return of a wait_for_app_ready whose last probe
\* was answered without error; when the wait times out the command returns
\* the "No app is running on port N" error of the wait and sends no request
\* of its own.  For Ready the first request sent is the command's own.
C33_ReadinessGate ==
    [][/\ (cli'.command = "get" /\ cli'.caller = "request"
              /\ cli'.pc = "sent" /\ cli.pc # "sent") =>
             /\ cli.pc = "done" /\ cli.command = "get"
             /\ cli.caller = "wait_for_app_ready"
             /\ cli.outcome.ok /\ cli.returned.ok
       /\ (cli.command = "get" /\ cli.pc = "tick" /\ cli'.pc = "done") =>
             /\ ~cli'.returned.ok
             /\ cli'.returned.err =
                   <<"No app is running on port ", 17000,
                     ". Start the app first or use --managed mode.">>
       /\ (cli.command = "get" /\ cli.pc = "done" /\ ~cli.returned.ok
              /\ cli.caller = "wait_for_app_ready") =>
             ~(cli'.command = "get" /\ cli'.caller = "request")
       /\ (cli'.command = "ready" /\ cli.command # "ready") =>
             cli'.pc = "sent" /\ cli'.caller = "is_ready"]_vars

\* The request of a command is in flight after a gate that needed a second
\* probe.
C33_Witness ==
    /\ cli.command = "get" /\ cli.caller = "request" /\ cli.pc = "sent"
    /\ cli.checks > 0

\* C36: for a direct command the ports probed are the requested port and,
\* for the default port only, the five ports after it.  When no probed port
\* answers the CLI exits with the "No app is running on port N" error,
\* when more than one answers it exits with the error that lists them, and
\* in both cases nothing of a command is ever sent; when exactly one
\* answers the command is executed by a client of that port.
C36_DirectCommandDispatch ==
    /\ [](cli.pc = "exit" => cli.request = Null /\ cli.command = "none")
    /\ [][/\ cli.pc = "exit" => cli' = cli
          /\ cli.pc # "main" => cli'.port = cli.port
          /\ (cli.pc = "main" /\ cli'.pc # "main") =>
                LET probed == IF cli.requested = 15702 THEN 15702..15707
                              ELSE {cli.requested}
                    responding == cli.apps \cap probed
                IN /\ cli'.request = Null
                   /\ CASE responding = {} ->
                             /\ cli'.pc = "exit"
                             /\ cli'.returned.err[1] = "No app is running on port "
                             /\ cli'.returned.err[2] = cli.requested
                        [] Cardinality(responding) = 1 ->
                             cli'.pc = "idle" /\ cli'.port \in responding
                        [] OTHER ->
                             /\ cli'.pc = "exit"
                             /\ cli'.returned.err[1]
                                   = "Multiple app instances detected on ports: "
                             /\ Len(cli'.returned.err[2])
                                   = Cardinality(responding)]_vars

\* The default port was requested, the only application answers on the
\* fifth port after it, and the request of the command is in flight.
C36_Witness ==
    /\ cli.requested = 15702 /\ cli.apps = {15707, 17000} /\ cli.port = 15707
    /\ cli.pc = "sent" /\ cli.command = "get" /\ cli.caller = "request"

\* C37: throughout the scan of parse_command_list the brace depth is
\* never negative and in_json holds exactly when it is positive.  Read by
\* the lexical rules of JSON (a string begins and ends at an unescaped quote
\* inside braces, braces inside a string do not count), and as long as every
\* backslash inside braces stood inside a string, the depth and the string
\* state of the scan are those of the text read so far; and the commands
\* returned are the pieces between the commas at depth 0, trimmed, the
\* empty ones left out, in input order.
C37_SplitsOutsideJson ==
    par.pc \in {"scan", "returned"} =>
       LET n == Len(par.input)
           Plain == [depth |-> 0, str |-> FALSE, esc |-> FALSE]
           lex[k \in 0..n] ==
              IF k = 0 THEN Plain
              ELSE LET was == lex[k - 1]
                       ch == par.input[k]
                   IN IF was.str
                      THEN IF was.esc THEN [was EXCEPT !.esc = FALSE]
                           ELSE IF ch = "\\" THEN [was EXCEPT !.esc = TRUE]
                           ELSE IF ch = "\"" THEN [was EXCEPT !.str = FALSE]
                           ELSE was
                      ELSE IF ch = "{" THEN [was EXCEPT !.depth = @ + 1]
                      ELSE IF ch = "}" /\ was.depth > 0
                      THEN [was EXCEPT !.depth = @ - 1]
                      ELSE IF ch = "\"" /\ was.depth > 0
                      THEN [was EXCEPT !.str = TRUE]
                      ELSE was
           wellformed(k) ==
              \A j \in 1..k :
                 par.input[j] = "\\" /\ lex[j - 1].depth > 0 => lex[j - 1].str
           splits == {k \in 1..n : par.input[k] = "," /\ lex[k - 1].depth = 0}
           begin(k) ==
              LET before == {j \in splits : j < k}
              IN IF before = {} THEN 1
                 ELSE 1 + CHOOSE j \in before : \A i \in before : i <= j
           pieces[k \in 0..(n + 1)] ==
              IF k = 0 THEN <<>>
              ELSE IF k \in splits \cup {n + 1}
              THEN LET piece == trim_end(trim_start(
                                   SubSeq(par.input, begin(k), k - 1)))
                   IN IF piece # <<>> THEN Append(pieces[k - 1], piece)
                      ELSE pieces[k - 1]
              ELSE pieces[k - 1]
       IN /\ par.brace_count >= 0
          /\ par.in_json = (par.brace_count > 0)
          /\ \A k \in 1..Len(par.commands) :
                /\ par.commands[k] # <<>>
                /\ Head(par.commands[k]) # " "
                /\ par.commands[k][Len(par.commands[k])] # " "
          /\ wellformed(par.pos) =>
                /\ par.brace_count = lex[par.pos].depth
                /\ par.in_string = lex[par.pos].str
                /\ par.pc = "returned" => par.commands = pieces[n + 1]
                /\ par.pc = "scan" => par.commands = pieces[par.pos]

\* The scan returned one command for a text whose comma follows an escaped
\* quote inside a string inside braces.
C37_Witness ==
    /\ par.pc = "returned" /\ par.input = <<"{", "\"", "\\", "\"", ",">>
    /\ par.commands = <<par.input>> /\ par.in_string

\* C4: a JSON reply without an error field makes request return the value
\* of the reply's result field, not the reply itself.
C4_ReturnsResultField ==
    (cli.pc = "done" /\ cli.reply.kind = "obj"
       /\ "error" \notin DOMAIN cli.reply.fields) =>
        /\ cli.outcome.ok
        /\ cli.outcome.value # cli.reply
        /\ cli.outcome.value =
              IF "result" \in DOMAIN cli.reply.fields
              THEN cli.reply.fields["result"]
              ELSE Null

\* C4 witness: a reply with a result and no error has been returned.
C4_Witness ==
    /\ cli.pc = "done" /\ cli.reply.kind = "obj"
    /\ DOMAIN cli.reply.fields = {"jsonrpc", "id", "result"}
    /\ cli.outcome = Ok(IntV(7))

\* C5: a reply with an error object makes request fail, and the failure
\* text carries the integer code and the string message of that object.
C5_ErrorPreserved ==
    (cli.pc = "done" /\ cli.reply.kind = "obj"
       /\ "error" \in DOMAIN cli.reply.fields) =>
        /\ ~cli.outcome.ok
        /\ LET e == cli.reply.fields["error"]
           IN (/\ e.kind = "obj"
               /\ DOMAIN e.fields = {"code", "message"}
               /\ e.fields["code"].kind = "int"
               /\ e.fields["message"].kind = "str") =>
                 cli.outcome.err = <<"Remote error [", e.fields["code"].n,
                                     "]: ", e.fields["message"].s>>

\* C5 witness: a reply with an error object and a result has failed.
C5_Witness ==
    /\ cli.pc = "done" /\ cli.reply.kind = "obj"
    /\ DOMAIN cli.reply.fields = {"jsonrpc", "id", "result", "error"}
    /\ cli.outcome.err = <<"Remote error [", -32601, "]: ", "not found">>

\* C6: the outcome is binary.  Ok is returned at the first check that
\* succeeds and no check is invoked after it; a failure is the timeout with
\* exactly the caller's message, never the error of a failed check, and a
\* failed check does not end the polling before the timeout.
C6_BinaryOutcome ==
    /\ (poll.pc = "done") = (poll.result \in {"ok", "err"})
    /\ poll.succeed_on > 0 => poll.attempts <= poll.succeed_on
    /\ poll.result = "ok" => poll.attempts = poll.succeed_on /\ poll.error = ""
    /\ poll.result = "err" =>
          /\ poll.error = TimeoutMsg
          /\ poll.now >= poll.timeout
          /\ \/ poll.succeed_on = 0
             \/ poll.attempts < poll.succeed_on
             \/ poll.attempts = poll.succeed_on /\ poll.cancelled

\* C6 witness: checks have failed, and the timeout message is what is returned.
C6_Witness ==
    poll.result = "err" /\ poll.attempts >= 2 /\ poll.last_err = CheckErr

\* C7 as stated: success on the Nth attempt, with N * interval < timeout,
\* comes at or after N * interval and before the timeout.
C7_AsStated ==
    (poll.result = "ok" /\ poll.attempts * poll.interval < poll.timeout) =>
        /\ poll.now >= poll.attempts * poll.interval
        /\ poll.now < poll.timeout

\* C7 amended: success on the Nth attempt comes at or after
\* (N - 1) * interval (the first attempt is made at once) and not after the
\* timeout.
C7_SuccessWindow ==
    poll.result = "ok" =>
        /\ poll.now >= (poll.attempts - 1) * poll.interval
        /\ poll.now <= poll.timeout

\* C7 witness: success on the third attempt, exactly two intervals in.
C7_Witness ==
    poll.result = "ok" /\ poll.attempts = 3 /\ poll.now = 2 * poll.interval

\* C8: with a check that never succeeds the poller terminates with the
\* timeout error once the timeout has elapsed (at most one interval late),
\* also when a check is in flight then, and the check is invoked at most
\* timeout / interval + 1 times.
C8_TimesOut ==
    /\ (poll.succeed_on = 0) ~>
          (/\ poll.pc = "done" /\ poll.result = "err"
           /\ poll.error = TimeoutMsg
           /\ poll.now >= poll.timeout
           /\ poll.now <= poll.timeout + poll.interval)
    /\ [](poll.attempts <= (poll.timeout \div poll.interval) + 1)

\* C8 witness: the deadline fired while a check was still pending.
C8_Witness ==
    /\ poll.succeed_on = 0 /\ poll.result = "err" /\ poll.cancelled
    /\ poll.check_ends = Hangs /\ poll.attempts >= 2

====
